---- MODULE Spec2Model ----
(***************************************************************************)
(* Lint orchestration of the ShellCheck provider (shellcheck/linter.ts):   *)
(* document life-cycle events, the per-document ThrottledDelayer, the lint *)
(* runs and the diagnostic / code-action stores.                           *)
(***************************************************************************)
EXTENDS Integers, Sequences, FiniteSets, Bags, TLC

VARIABLES
  \* host editor
  workspace,             \* documents that exist and can be opened
  openDocs,              \* vscode.workspace.textDocuments
  text,                  \* document -> version of its current text
  config,                \* the shellcheck configuration section
  budget,                \* editor events still to come
  \* ShellCheckProvider fields
  settingsByUri,         \* Map<string, ShellCheckSettings>
  toolStatusByPath,      \* Map<string, ToolStatus>
  delayers,              \* Map<string, ThrottledDelayer>: key -> index in heap
  diagnosticCollection,  \* vscode.DiagnosticCollection
  codeActionCollection,  \* Map<string, ParseResult[]>
  \* asynchronous activity
  heap,                  \* every ThrottledDelayer created, with the run of its task
  calls,                 \* bag of the triggerLint calls suspended at an await
  initialLint,           \* the timer of scheduleInitialLint is pending
  \* history
  runSeq,                \* number of lint runs started
  applied,               \* key -> summary of the results its runs have applied so far
  mon,                   \* key -> observer of the two-rapid-edits scenario
  lastChange,            \* key -> the last editor event was a change of this eligible document
  notifiedMissingExecutable,  \* paths whose "executable not found" message was dismissed
  notice,                \* history of the current configuration epoch: missing-executable
                         \* failures met and "executable not found" messages opened
  \* scheduler on its own (one key)
  sd, trigLog, startLog,
  \* reconciliation store on its own
  lastSet,
  \* fix-all aggregation on its own
  fix,
  \* the argument vector of a lint invocation on its own
  argv,
  \* the suppression command on its own
  supp,
  \* the version probe of one executable path on its own
  probe,
  \* the classification of one raised error on its own
  failure,
  \* the last trigger seen by the eligibility gates on their own
  gate,
  \* the last code-action request answered by provideCodeActions on its own
  offer,
  \* the last text normalised for the tool, on its own
  norm,
  \* the last diff hunk translated into edits, on its own
  hunk

hostVars == <<workspace, openDocs, text, config, budget>>
provVars == <<settingsByUri, toolStatusByPath, delayers, diagnosticCollection,
              codeActionCollection, heap, calls, initialLint, runSeq, applied, mon,
              lastChange, notifiedMissingExecutable, notice>>
schedVars == <<sd, trigLog, startLog>>
aloneVars == <<lastSet, fix, argv, supp, probe, failure, gate, offer, norm, hunk>>
vars == <<hostVars, provVars, schedVars, aloneVars>>

-----------------------------------------------------------------------------
(* Bounds *)
MaxEvents == 3     \* editor events in one behaviour of Spec
MaxCalls == 1      \* triggerLint calls suspended at the same time
MaxEventsTwo == 1  \* editor events in one behaviour of SpecTwo
MaxTriggers == 4   \* trigger calls in one behaviour of SpecSched
MaxResults == 2    \* length of a result list in SpecSet
MaxPos == 3        \* positions 0..MaxPos of the document a fix-all edit addresses
MaxFixes == 2      \* quick-fix actions aggregated by one fix-all action
MaxEdits == 2      \* text edits carried by one quick-fix action
MaxExclude == 2    \* rule ids in the exclusion list of a lint invocation
MaxCustomArgs == 2 \* extra arguments the user configured
MaxLineLen == 3    \* characters of the line the suppression command is run on
MaxLines == 2      \* lines of the document the suppression command is run on
MaxOut == 4        \* pieces of the output of the version probe
MaxContext == 1    \* diagnostics in the context of a code-action request
MaxCached == 1     \* cached results of the document of a code-action request
MaxText == 4       \* characters of a document text whose line endings are normalised
MaxHunk == 3       \* lines of a diff hunk

Docs == {"a", "b"}

-----------------------------------------------------------------------------
(* Maps with absent keys: functions whose domain is the set of present keys *)
EmptyMap == [x \in {} |-> 0]
Has(m, k) == k \in DOMAIN m
MapSet(m, k, v) == [x \in (DOMAIN m) \cup {k} |-> IF x = k THEN v ELSE m[x]]
MapDelete(m, k) == [x \in (DOMAIN m) \ {k} |-> m[x]]


-----------------------------------------------------------------------------
(* ThrottledDelayer (utils/async): trigger / timer expiry / task completion *)

NewDelayer(delay) ==
  [delay |-> delay, timer |-> FALSE, task |-> <<>>,
   running |-> FALSE, active |-> <<>>, rerun |-> <<>>]

\* mutant: a call during a pending timer restarts the timer but keeps the first task
DelayerTriggerKeepsFirst(d, t) ==
  IF d.running THEN [d EXCEPT !.rerun = <<t>>]
  ELSE IF d.timer THEN d
  ELSE [d EXCEPT !.timer = TRUE, !.task = <<t>>]

\* trigger(task)
DelayerTrigger(d, t) ==
  IF d.running
  THEN [d EXCEPT !.rerun = <<t>>]
  ELSE [d EXCEPT !.timer = TRUE, !.task = <<t>>]

\* the timer expires: the pending task starts
DelayerExpire(d) ==
  [d EXCEPT !.timer = FALSE, !.task = <<>>, !.running = TRUE, !.active = d.task]

\* mutant: the rerun recorded during the execution is forgotten
DelayerCompleteDropsRerun(d) ==
  [d EXCEPT !.running = FALSE, !.active = <<>>, !.rerun = <<>>]

\* the task in flight settles (fulfilled or rejected): a recorded rerun starts at once
DelayerComplete(d) ==
  IF d.rerun # <<>>
  THEN [d EXCEPT !.active = d.rerun, !.rerun = <<>>]
  ELSE [d EXCEPT !.running = FALSE, !.active = <<>>]

\* mutant: a rejected task leaves the delayer as it was, its key still in flight
DelayerSettleStuck(d, outcome) ==
  IF outcome = "rejected" THEN d ELSE DelayerComplete(d)

\* the promise of the task in flight settles: the delayer completes in the
\* same way whether the task was fulfilled or rejected
DelayerSettle(d, outcome) == DelayerComplete(d)

DelayerState(d) ==
  IF d.running THEN (IF d.rerun # <<>> THEN "RunningWithPendingRerun" ELSE "Running")
  ELSE IF d.timer THEN "TimerPending" ELSE "Idle"

-----------------------------------------------------------------------------
(* Reconciliation store *)

Diagnostics(results) == [i \in 1..Len(results) |-> results[i].diagnostic]

\* mutant: the new results are added to the stored ones
setResultCollectionsMerges(dc, cac, uri, arg) ==
  IF arg.kind # "list" \/ Len(arg.list) = 0
  THEN [diagnosticCollection |-> MapDelete(dc, uri),
        codeActionCollection |-> MapDelete(cac, uri)]
  ELSE LET old == IF Has(cac, uri) THEN cac[uri] ELSE <<>>
       IN [diagnosticCollection |-> MapSet(dc, uri, Diagnostics(old \o arg.list)),
           codeActionCollection |-> MapSet(cac, uri, old \o arg.list)]

\* mutant: an empty result clears the diagnostics but keeps the cached code actions
setResultCollectionsKeepsActions(dc, cac, uri, arg) ==
  IF arg.kind # "list" \/ Len(arg.list) = 0
  THEN [diagnosticCollection |-> MapDelete(dc, uri), codeActionCollection |-> cac]
  ELSE [diagnosticCollection |-> MapSet(dc, uri, Diagnostics(arg.list)),
        codeActionCollection |-> MapSet(cac, uri, arg.list)]

\* setResultCollections(uri, results): arg.kind is "list", "null" or "undefined"
setResultCollections(dc, cac, uri, arg) ==
  IF arg.kind # "list" \/ Len(arg.list) = 0
  THEN [diagnosticCollection |-> MapDelete(dc, uri),
        codeActionCollection |-> MapDelete(cac, uri)]
  ELSE [diagnosticCollection |-> MapSet(dc, uri, Diagnostics(arg.list)),
        codeActionCollection |-> MapSet(cac, uri, arg.list)]

NoResults == [kind |-> "undefined", list |-> <<>>]
NullResults == [kind |-> "null", list |-> <<>>]
ListResults(l) == [kind |-> "list", list |-> l]

-----------------------------------------------------------------------------
(* Initial state: the provider as constructed *)

NoNotice == [missed |-> FALSE, shown |-> 0]

DefaultConfig == [enabled |-> TRUE, trigger |-> "onType", path |-> "shellcheck"]

InitProvider ==
  /\ settingsByUri = EmptyMap
  /\ toolStatusByPath = EmptyMap
  /\ delayers = EmptyMap
  /\ diagnosticCollection = EmptyMap
  /\ codeActionCollection = EmptyMap
  /\ heap = <<>>
  /\ calls = EmptyBag
  /\ initialLint = TRUE
  /\ runSeq = 0
  /\ applied = [k \in Docs |-> [seq |-> 0, text |-> 0, stale |-> FALSE,
                                 orphan |-> FALSE, threw |-> FALSE]]
  /\ mon = [k \in Docs |-> [st |-> "none", text |-> 0, fed |-> 0]]
  /\ lastChange = [k \in Docs |-> FALSE]
  /\ notifiedMissingExecutable = {}
  /\ notice = NoNotice

InitHost(ws, open) ==
  /\ workspace = ws
  /\ openDocs = open
  /\ text = [k \in Docs |-> 0]
  /\ config = DefaultConfig
  /\ budget = MaxEvents

InitSched ==
  /\ sd = NewDelayer(250)
  /\ trigLog = <<>>
  /\ startLog = <<>>

NoProcess == [exitCode |-> 0, stdout |-> [kind |-> "none", list |-> <<>>]]

InitStore ==
  lastSet = [done |-> FALSE, uri |-> "a", arg |-> NoResults, dc |-> EmptyMap, cac |-> EmptyMap,
             result |-> NoProcess, shown |-> FALSE]

InitFix ==
  fix = [actions |-> <<>>, edit |-> <<>>]

InitArgs ==
  argv = [done |-> FALSE, format |-> "", exclude |-> <<>>, fileExt |-> "",
          customArgs |-> <<>>, args |-> <<>>]

InitSupp ==
  supp = [done |-> FALSE, languageId |-> "", line |-> 0, ruleId |-> "", before |-> <<>>,
          after |-> <<>>]

InitProbe ==
  probe = [done |-> FALSE, stdout |-> <<>>, threw |-> FALSE, version |-> "", started |-> FALSE]

InitFailure ==
  failure = [done |-> FALSE]

InitGate ==
  gate = [filters |-> {}, done |-> FALSE]

InitOffer ==
  offer = [done |-> FALSE]

InitNorm ==
  norm = [done |-> FALSE]

InitHunk ==
  hunk = [done |-> FALSE]

-----------------------------------------------------------------------------
(* The scheduler on its own: one key, tasks numbered in call order *)

SchedFrame == UNCHANGED <<hostVars, provVars, aloneVars>>

SchedTrigger ==
  /\ SchedFrame
  /\ Len(trigLog) < MaxTriggers
  /\ sd' = DelayerTrigger(sd, Len(trigLog) + 1)
  /\ trigLog' = Append(trigLog, [task |-> Len(trigLog) + 1, at |-> DelayerState(sd)])
  /\ UNCHANGED startLog

SchedExpire ==
  /\ SchedFrame
  /\ sd.timer
  /\ sd' = DelayerExpire(sd)
  /\ startLog' = Append(startLog, [task |-> sd.task[1], via |-> "timer", n |-> Len(trigLog),
                                   res |-> "pending"])
  /\ UNCHANGED trigLog

TaskOutcomes == {"fulfilled", "rejected"}

\* the task in flight ends
SchedSettle(outcome) ==
  /\ SchedFrame
  /\ sd.running
  /\ sd' = DelayerSettle(sd, outcome)
  /\ LET settled == [startLog EXCEPT ![Len(startLog)].res = outcome]
     IN startLog' = IF sd'.running /\ sd'.active # sd.active
                    THEN Append(settled, [task |-> sd'.active[1], via |-> "rerun",
                                          n |-> Len(trigLog), res |-> "pending"])
                    ELSE settled
  /\ UNCHANGED trigLog

NextSched ==
  \/ SchedTrigger
  \/ SchedExpire
  \/ \E outcome \in TaskOutcomes : SchedSettle(outcome)

InitAlone == InitHost({}, {}) /\ InitProvider /\ InitSched /\ InitStore /\ InitFix /\ InitArgs /\ InitSupp /\ InitProbe /\ InitFailure /\ InitGate /\ InitOffer /\ InitNorm /\ InitHunk

SpecSched == InitAlone /\ [][NextSched]_vars

-----------------------------------------------------------------------------
(* Scheduler properties (SpecSched) *)

\* the calls of a burst that call i opens: i itself and the calls that follow it
\* while its timer is pending
RECURSIVE BurstEnd(_)
BurstEnd(i) ==
  IF i < Len(trigLog) /\ trigLog[i + 1].at = "TimerPending" THEN BurstEnd(i + 1) ELSE i

BurstSettled(i) == BurstEnd(i) < Len(trigLog) \/ ~sd.timer

StartsOfBurst(i) ==
  {p \in 1..Len(startLog) :
     startLog[p].via = "timer" /\ i <= startLog[p].n /\ startLog[p].n <= BurstEnd(i)}

\* C3: a burst of trigger calls, each later call arriving while the timer of the
\* previous one is pending and no task in flight, results in exactly one execution,
\* of the task passed to the last call of the burst (and in none before the timer
\* expires).
C3_BurstRunsLastTaskOnce ==
  \A i \in 1..Len(trigLog) :
    trigLog[i].at = "Idle" =>
      IF BurstSettled(i)
      THEN /\ Cardinality(StartsOfBurst(i)) = 1
           /\ \A p \in StartsOfBurst(i) : startLog[p].task = trigLog[BurstEnd(i)].task
      ELSE StartsOfBurst(i) = {}

C3_Witness ==
  \E p \in 1..Len(startLog) :
    /\ startLog[p].via = "timer"
    /\ startLog[p].n >= 3
    /\ trigLog[startLog[p].n].at = "TimerPending"
    /\ trigLog[startLog[p].n - 1].at = "TimerPending"

\* the calls made while execution p was in flight
CallsDuring(p) ==
  {m \in 1..Len(trigLog) :
     /\ trigLog[m].at \in {"Running", "RunningWithPendingRerun"}
     /\ startLog[p].n < m
     /\ (p < Len(startLog) => m <= startLog[p + 1].n)}

SetMax(S) == CHOOSE x \in S : \A y \in S : y <= x

ExecutionOver(p) == p < Len(startLog) \/ ~sd.running

C4_RerunInv ==
  \A p \in 1..Len(startLog) :
    /\ (ExecutionOver(p) /\ CallsDuring(p) # {}) =>
          /\ p < Len(startLog)
          /\ startLog[p + 1].via = "rerun"
          /\ startLog[p + 1].n = SetMax(CallsDuring(p))
          /\ startLog[p + 1].task = trigLog[SetMax(CallsDuring(p))].task
    /\ (p < Len(startLog) /\ startLog[p + 1].via = "rerun") => CallsDuring(p) # {}

C4_NotInterrupted ==
  (sd.running /\ Len(trigLog') > Len(trigLog)) =>
     (sd'.running /\ sd'.active = sd.active /\ startLog' = startLog)

\* C4: k >= 1 trigger calls during an execution leave that execution alone, and
\* after it completes exactly one further execution starts, at once, with the task
\* of the latest of those calls; a rerun starts only when such a call was made.
C4_OneRerunWithLatestTask == []C4_RerunInv /\ [][C4_NotInterrupted]_vars

C4_Witness ==
  \E p \in 1..Len(startLog) :
    /\ p < Len(startLog)
    /\ Cardinality(CallsDuring(p)) >= 2
    /\ startLog[p + 1].via = "rerun"

-----------------------------------------------------------------------------
(* The reconciliation store on its own: any sequence of setResultCollections *)

ParseResults ==
  {[diagnostic |-> "SC2086", codeAction |-> "fix"],
   [diagnostic |-> "SC2034", codeAction |-> "none"]}

RECURSIVE ListsUpTo(_)
ListsUpTo(n) ==
  IF n = 0 THEN {<<>>}
  ELSE LET S == ListsUpTo(n - 1)
       IN S \cup {Append(l, r) : l \in {x \in S : Len(x) = n - 1}, r \in ParseResults}

ResultArgs == {NoResults, NullResults} \cup {ListResults(l) : l \in ListsUpTo(MaxResults)}

StoreSet(uri, arg) ==
  LET R == setResultCollections(diagnosticCollection, codeActionCollection, uri, arg)
  IN /\ diagnosticCollection' = R.diagnosticCollection
     /\ codeActionCollection' = R.codeActionCollection
     /\ lastSet' = [done |-> TRUE, uri |-> uri, arg |-> arg,
                    dc |-> diagnosticCollection, cac |-> codeActionCollection,
                    result |-> NoProcess, shown |-> FALSE]
     /\ UNCHANGED <<hostVars, schedVars, settingsByUri, toolStatusByPath, delayers,
                    heap, calls, initialLint, runSeq, applied, mon, lastChange,
                    notifiedMissingExecutable, notice, fix, argv, supp, probe, failure, gate, offer, norm, hunk>>

NextSet == \E uri \in Docs, arg \in ResultArgs : StoreSet(uri, arg)

SpecSet == InitAlone /\ [][NextSet]_vars

OthersUnchanged ==
  \A k \in Docs \ {lastSet.uri} :
    /\ Has(diagnosticCollection, k) = Has(lastSet.dc, k)
    /\ Has(codeActionCollection, k) = Has(lastSet.cac, k)
    /\ Has(lastSet.dc, k) => diagnosticCollection[k] = lastSet.dc[k]
    /\ Has(lastSet.cac, k) => codeActionCollection[k] = lastSet.cac[k]

\* C9: setResultCollections(key, results) with a non-empty list leaves key with
\* exactly the diagnostics of results, in order, and with results as its cached
\* code actions, whatever was stored before; every other key keeps its entries.
C9_SetReplaces ==
  (lastSet.done /\ lastSet.arg.kind = "list" /\ Len(lastSet.arg.list) > 0) =>
    /\ Has(diagnosticCollection, lastSet.uri)
    /\ Len(diagnosticCollection[lastSet.uri]) = Len(lastSet.arg.list)
    /\ \A i \in 1..Len(lastSet.arg.list) :
         diagnosticCollection[lastSet.uri][i] = lastSet.arg.list[i].diagnostic
    /\ Has(codeActionCollection, lastSet.uri)
    /\ codeActionCollection[lastSet.uri] = lastSet.arg.list
    /\ OthersUnchanged

C9_Witness ==
  /\ lastSet.done /\ lastSet.arg.kind = "list" /\ Len(lastSet.arg.list) = 2
  /\ Has(lastSet.cac, lastSet.uri)
  /\ lastSet.cac[lastSet.uri] # lastSet.arg.list
  /\ lastSet.arg.list[1] # lastSet.arg.list[2]
  /\ \E k \in Docs \ {lastSet.uri} : Has(codeActionCollection, k)

\* C10: setResultCollections(key, []), (key, null) and (key) all remove the
\* diagnostics and the cached code actions of key, whatever was stored before,
\* and leave every other key as it was.
C10_EmptyClears ==
  (lastSet.done /\ (lastSet.arg.kind # "list" \/ Len(lastSet.arg.list) = 0)) =>
    /\ ~Has(diagnosticCollection, lastSet.uri)
    /\ ~Has(codeActionCollection, lastSet.uri)
    /\ OthersUnchanged

C10_Witness ==
  /\ lastSet.done /\ lastSet.arg = ListResults(<<>>)
  /\ Has(lastSet.dc, lastSet.uri) /\ Has(lastSet.cac, lastSet.uri)
  /\ \E k \in Docs \ {lastSet.uri} : Has(codeActionCollection, k)

-----------------------------------------------------------------------------
(* ShellCheckProvider: handlers as functions of the provider state Q *)

Prov ==
  [settingsByUri |-> settingsByUri, toolStatusByPath |-> toolStatusByPath,
   delayers |-> delayers, diagnosticCollection |-> diagnosticCollection,
   codeActionCollection |-> codeActionCollection, heap |-> heap, calls |-> calls,
   initialLint |-> initialLint, runSeq |-> runSeq, applied |-> applied, mon |-> mon,
   notifiedMissingExecutable |-> notifiedMissingExecutable, notice |-> notice,
   cfg |-> config]                 \* the configuration section the handlers read

Commit(Q) ==
  /\ UNCHANGED <<schedVars, aloneVars>>
  /\ settingsByUri' = Q.settingsByUri
  /\ toolStatusByPath' = Q.toolStatusByPath
  /\ delayers' = Q.delayers
  /\ diagnosticCollection' = Q.diagnosticCollection
  /\ codeActionCollection' = Q.codeActionCollection
  /\ heap' = Q.heap
  /\ calls' = Q.calls
  /\ initialLint' = Q.initialLint
  /\ runSeq' = Q.runSeq
  /\ applied' = Q.applied
  /\ mon' = Q.mon
  /\ notifiedMissingExecutable' = Q.notifiedMissingExecutable
  /\ notice' = Q.notice

Configs ==
  {DefaultConfig,
   [enabled |-> TRUE, trigger |-> "onSave", path |-> "shellcheck"],
   [enabled |-> FALSE, trigger |-> "onType", path |-> "shellcheck"]}

DocOrder == <<"a", "b">>
LANGUAGES == {"shellscript", "bats"}
languageId(k) == "shellscript"

StatusOk == [ok |-> TRUE, reason |-> "none"]
StatusFailed(reason) == [ok |-> FALSE, reason |-> reason]

NoRun == [phase |-> "idle", text |-> 0, seq |-> 0, err |-> "none", closed |-> FALSE]
MonNone == [st |-> "none", text |-> 0, fed |-> 0]
NoSrc == [change |-> FALSE, prev |-> MonNone, text |-> 0]

KeyObjs(Q, k) == {i \in 1..Len(Q.heap) : Q.heap[i].key = k}
KeyCalls(Q, k) == {c \in BagToSet(Q.calls) : c.doc = k}
AddCall(Q, c) == [Q EXCEPT !.calls = @ (+) SetToBag({c})]
DropCall(Q, c) == [Q EXCEPT !.calls = @ (-) SetToBag({c})]

\* mutant: the stores are replaced by the results of the one key
SetResultsReplacesStores(Q, uri, arg) ==
  LET R == setResultCollections(EmptyMap, EmptyMap, uri, arg)
  IN [Q EXCEPT !.diagnosticCollection = R.diagnosticCollection,
               !.codeActionCollection = R.codeActionCollection]

SetResults(Q, uri, arg) ==
  LET R == setResultCollections(Q.diagnosticCollection, Q.codeActionCollection, uri, arg)
  IN [Q EXCEPT !.diagnosticCollection = R.diagnosticCollection,
               !.codeActionCollection = R.codeActionCollection]

isAllowedTextDocument(k) == languageId(k) \in LANGUAGES

\* mutant: the trigger mode is not consulted
extraConditionIgnoresMode(cond, settings) == TRUE

\* the extraCondition closures of the event handlers
extraCondition(cond, settings) ==
  CASE cond = "onType" -> settings.trigger = "onType"
    [] cond = "onSave" -> settings.trigger = "onSave"
    [] OTHER -> TRUE

\* toolStatusByError: the probe and the run report what kind of error they raised
toolStatusByError(err) ==
  IF err = "executableNotFound" THEN StatusFailed("executableNotFound")
  ELSE StatusFailed("executionFailed")

errorLooksLikeMissingExecutable(err) == err = "executableNotFound"

\* showShellCheckError, line 861: nothing is shown for a path already notified
AlreadyNotified(Q, err, path) ==
  errorLooksLikeMissingExecutable(err) /\ path \in Q.notifiedMissingExecutable

\* a failure with error err is met in the current epoch
ErrorMet(Q, err) ==
  IF errorLooksLikeMissingExecutable(err) THEN [Q EXCEPT !.notice.missed = TRUE] ELSE Q

\* showShellCheckError, lines 865-877: the error message is opened
showShellCheckError(Q, err) ==
  IF errorLooksLikeMissingExecutable(err)
  THEN [Q EXCEPT !.notice.shown = IF @ < 2 THEN @ + 1 ELSE @]
  ELSE Q

\* showShellCheckError, lines 879-881: after the message was dismissed
ErrorDismissed(Q, err, path) ==
  IF errorLooksLikeMissingExecutable(err)
  THEN [Q EXCEPT !.notifiedMissingExecutable = @ \cup {path}]
  ELSE Q

\* observer of "two change events within the debounce window"
MonAfterTrigger(Q, k, src) ==
  IF ~src.change THEN MonNone
  ELSE IF src.prev.st = "one" /\ \E i \in KeyObjs(Q, k) : Q.heap[i].d.timer
       THEN [st |-> "two", text |-> src.text, fed |-> 0]
  ELSE IF /\ \A i \in KeyObjs(Q, k) : ~Q.heap[i].d.timer /\ ~Q.heap[i].d.running
          /\ KeyCalls(Q, k) = {}
       THEN [st |-> "one", text |-> src.text, fed |-> 0]
  ELSE MonNone

NewObject(k, settings) ==
  [key |-> k, d |-> NewDelayer(IF settings.trigger = "onType" THEN 250 ELSE 0), run |-> NoRun]

\* mutant: a new delayer for every trigger
EnsureDelayerAlwaysNew(Q, k, settings) ==
  [Q EXCEPT !.heap = Append(@, NewObject(k, settings)),
            !.delayers = MapSet(@, k, Len(Q.heap) + 1)]

\* triggerLint, lines 776-781: the delayer of the key, created on first use
EnsureDelayer(Q, k, settings) ==
  IF Has(Q.delayers, k) THEN Q
  ELSE [Q EXCEPT !.heap = Append(@, NewObject(k, settings)),
                 !.delayers = MapSet(@, k, Len(Q.heap) + 1)]

\* triggerLint after `await this.getSettings(textDocument)`
TriggerContinue(Q, k, cond, src) ==
  IF ~Has(Q.settingsByUri, k) THEN Q                 \* settings undefined: TypeError, logged
  ELSE
    LET settings == Q.settingsByUri[k] IN
    IF ~extraCondition(cond, settings) THEN Q
    ELSE IF ~Has(Q.toolStatusByPath, settings.path) THEN Q   \* `!.ok` on undefined: TypeError
    ELSE IF ~Q.toolStatusByPath[settings.path].ok THEN Q
    ELSE IF ~settings.enabled THEN SetResults(Q, k, NoResults)
    ELSE
      LET Q1 == EnsureDelayer(Q, k, settings)
          id == Q1.delayers[k]
      IN [Q1 EXCEPT !.heap[id].d = DelayerTrigger(@, [settings |-> settings]),
                    !.mon[k] = MonAfterTrigger(Q, k, src)]

RECURSIVE StartTrigger(_, _, _, _, _), LoopNext(_, _)

\* triggerLint up to its first await; rest: the documents that
\* triggerLintForEntireWorkspace has still to visit after this one
StartTrigger(Q, k, cond, rest, src) ==
  IF ~isAllowedTextDocument(k) THEN LoopNext(Q, rest)
  ELSE IF Has(Q.settingsByUri, k) THEN LoopNext(TriggerContinue(Q, k, cond, src), rest)
  ELSE AddCall(Q, [doc |-> k, cond |-> cond, pc |-> "settings",
                   settings |-> Q.cfg, err |-> "none", rest |-> rest, cleared |-> FALSE])

LoopNext(Q, rest) ==
  IF rest = <<>> THEN Q ELSE StartTrigger(Q, Head(rest), "any", Tail(rest), NoSrc)

\* the suspended triggerLint call c resumes after getSettings and runs to its end
FinishCall(Q, c) ==
  LoopNext(TriggerContinue(DropCall(Q, c), c.doc, c.cond, NoSrc), c.rest)

RECURSIVE StartTask(_, _), CompleteTask(_, _)

\* runLint up to its first await
StartTask(Q, id) ==
  LET settings == Q.heap[id].d.active[1].settings IN
  IF ~Has(Q.toolStatusByPath, settings.path) \/ ~Q.toolStatusByPath[settings.path].ok
  THEN CompleteTask(Q, id)
  ELSE [Q EXCEPT !.heap[id].run = [phase |-> "cwd", text |-> 0, seq |-> Q.runSeq + 1,
                                   err |-> "none", closed |-> FALSE],
                 !.runSeq = @ + 1]

\* the promise of runLint settles
CompleteTask(Q, id) ==
  LET d2 == DelayerComplete(Q.heap[id].d)
      Q2 == [Q EXCEPT !.heap[id].d = d2, !.heap[id].run = NoRun]
  IN IF d2.running THEN StartTask(Q2, id) ELSE Q2

\* runLint, line 822: the script is the text of the document at that moment
ScriptText(k, o) == text[k]

-----------------------------------------------------------------------------
(* Editor events *)

\* an editor event arrives
AnyEvent == budget > 0 /\ budget' = budget - 1

\* an editor event whose handler calls triggerLint: it is taken while fewer than
\* MaxCalls triggerLint calls are suspended
Event == AnyEvent /\ BagCardinality(calls) < MaxCalls

\* the triggerLint calls that are suspended for document k
CallsOf(k) == BagCardinality([c \in KeyCalls(Prov, k) |-> CopiesIn(c, calls)])

\* an editor event on document k: it is taken while fewer than MaxCalls
\* triggerLint calls are suspended for k
EventOn(k) == AnyEvent /\ CallsOf(k) < MaxCalls

\* an open document in on-type mode whose settings are resolved and whose tool is ready
Eligible(k) ==
  /\ k \in openDocs
  /\ Has(settingsByUri, k)
  /\ settingsByUri[k].enabled
  /\ settingsByUri[k].trigger = "onType"
  /\ Has(toolStatusByPath, settingsByUri[k].path)
  /\ toolStatusByPath[settingsByUri[k].path].ok

\* history: the runs of key k that are in flight now have seen their document closed
MarkClosed(Q, k) ==
  [Q EXCEPT !.heap = [i \in 1..Len(@) |->
     IF @[i].key = k /\ @[i].run.phase # "idle" THEN [@[i] EXCEPT !.run.closed = TRUE] ELSE @[i]]]

ResetMon(Q, k) == [Q EXCEPT !.mon[k] = MonNone]

\* the extraCondition closure that the handler of each kind of event passes to
\* triggerLint: the change handler passes the on-type test, the save handler the
\* on-save test, the open handler and the run-lint command pass none
EventCondition(ev) ==
  CASE ev = "change" -> "onType"
    [] ev = "save" -> "onSave"
    [] OTHER -> "any"

\* the handler of an event of kind ev on document k calls triggerLint
TriggerByEvent(Q, ev, k, src) ==
  StartTrigger(ResetMon(Q, k), k, EventCondition(ev), <<>>, src)

handleDidOpenTextDocument(k) ==
  /\ EventOn(k)
  /\ k \in workspace \ openDocs
  /\ openDocs' = openDocs \cup {k}
  /\ Commit(TriggerByEvent(Prov, "open", k, NoSrc))
  /\ lastChange' = [d \in Docs |-> FALSE]
  /\ UNCHANGED <<workspace, text, config>>

handleDidCloseTextDocument(k) ==
  /\ AnyEvent
  /\ k \in openDocs
  /\ openDocs' = openDocs \ {k}
  /\ LET Q1 == SetResults(MarkClosed(ResetMon(Prov, k), k), k, NoResults)
     IN Commit([Q1 EXCEPT !.settingsByUri = MapDelete(@, k),
                          !.delayers = MapDelete(@, k)])
  /\ lastChange' = [d \in Docs |-> FALSE]
  /\ UNCHANGED <<workspace, text, config>>

handleDidChangeTextDocument(k) ==
  /\ EventOn(k)
  /\ k \in openDocs
  /\ text' = [text EXCEPT ![k] = @ + 1]
  /\ Commit(TriggerByEvent(Prov, "change", k,
                            [change |-> TRUE, prev |-> mon[k], text |-> text[k] + 1]))
  /\ lastChange' = [d \in Docs |-> d = k /\ Eligible(k)]
  /\ UNCHANGED <<workspace, openDocs, config>>

handleDidSaveTextDocument(k) ==
  /\ EventOn(k)
  /\ k \in openDocs
  /\ Commit(TriggerByEvent(Prov, "save", k, NoSrc))
  /\ lastChange' = [d \in Docs |-> FALSE]
  /\ UNCHANGED <<workspace, openDocs, text, config>>

OpenInOrder == SelectSeq(DocOrder, LAMBDA k : k \in openDocs)

handleDidChangeConfiguration(c) ==
  /\ Event
  /\ c # config
  /\ config' = c
  /\ LET Q1 == [Prov EXCEPT !.settingsByUri = EmptyMap, !.toolStatusByPath = EmptyMap,
                            !.mon = [k \in Docs |-> MonNone], !.cfg = c]
     IN Commit(LoopNext([Q1 EXCEPT !.notice = NoNotice], OpenInOrder))
  /\ lastChange' = [d \in Docs |-> FALSE]
  /\ UNCHANGED <<workspace, openDocs, text>>

\* the timer of scheduleInitialLint fires
InitialLint ==
  /\ initialLint
  /\ BagCardinality(calls) < MaxCalls
  /\ Commit(LoopNext([Prov EXCEPT !.initialLint = FALSE], OpenInOrder))
  /\ UNCHANGED <<hostVars, lastChange>>

-----------------------------------------------------------------------------
(* Continuations of suspended triggerLint calls *)

\* updateConfiguration after `await getWorkspaceSettings`
SettingsResolved(c) ==
  /\ c.pc = "settings"
  /\ LET Q1 == SetResults([Prov EXCEPT !.settingsByUri = MapSet(@, c.doc, c.settings)],
                          c.doc, NoResults)
     IN IF c.settings.enabled /\ ~Has(Q1.toolStatusByPath, c.settings.path)
        THEN Commit(AddCall(DropCall(Q1, c),
                            [c EXCEPT !.pc = "probe",
                                      \* history: line 552 removed results of the document
                                      !.cleared = Has(diagnosticCollection, c.doc)
                                                    \/ Has(codeActionCollection, c.doc)]))
        ELSE Commit(FinishCall(Q1, c))
  /\ UNCHANGED <<hostVars, lastChange>>

\* `await getToolVersion` settles: with a version ("ok": at least the minimum
\* version, "outdated": below it, so that the update prompt is shown) or an error
ProbeDone(c, outcome) ==
  /\ c.pc = "probe"
  /\ LET ready == [Prov EXCEPT !.toolStatusByPath = MapSet(@, c.settings.path, StatusOk)]
     IN CASE outcome = "ok" -> Commit(FinishCall(ready, c))
          [] outcome = "outdated" ->
               Commit(AddCall(DropCall(ready, c), [c EXCEPT !.pc = "prompt"]))
          [] OTHER ->
               LET met == ErrorMet(Prov, outcome) IN
               IF AlreadyNotified(met, outcome, c.settings.path)
               THEN Commit(FinishCall([met EXCEPT !.toolStatusByPath =
                              MapSet(@, c.settings.path, toolStatusByError(outcome))], c))
               ELSE Commit(AddCall(DropCall(showShellCheckError(met, outcome), c),
                                   [c EXCEPT !.pc = "notify", !.err = outcome]))
  /\ UNCHANGED <<hostVars, lastChange>>

\* `await tryPromptForUpdatingTool` returns
UpdatePromptDone(c) ==
  /\ c.pc = "prompt"
  /\ Commit(FinishCall(Prov, c))
  /\ UNCHANGED <<hostVars, lastChange>>

\* `await this.showShellCheckError` returns in updateConfiguration
ProbeErrorShown(c) ==
  /\ c.pc = "notify"
  /\ Commit(FinishCall([ErrorDismissed(Prov, c.err, c.settings.path) EXCEPT
                           !.toolStatusByPath =
                             MapSet(@, c.settings.path, toolStatusByError(c.err))], c))
  /\ UNCHANGED <<hostVars, lastChange>>

-----------------------------------------------------------------------------
(* Delayer timers and lint runs *)

TimerFires(id) ==
  /\ id \in 1..Len(heap)
  /\ heap[id].d.timer
  /\ Commit(StartTask([Prov EXCEPT !.heap[id].d = DelayerExpire(@)], id))
  /\ UNCHANGED <<hostVars, lastChange>>

\* `await ensureCurrentWorkingDirectory` returns: the text is read, the process spawned
CwdResolved(id) ==
  /\ id \in 1..Len(heap)
  /\ heap[id].run.phase = "cwd"
  /\ LET k == heap[id].key
         fed == ScriptText(k, heap[id])
         m == mon[k]
     IN Commit([Prov EXCEPT
          !.heap[id].run.phase = "exec",
          !.heap[id].run.text = fed,
          !.mon[k] = CASE m.st = "two" -> [m EXCEPT !.st = "spawned", !.fed = fed]
                       [] m.st = "spawned" -> [m EXCEPT !.st = "bad"]
                       [] OTHER -> MonNone])
  /\ UNCHANGED <<hostVars, lastChange>>

\* history: the run of sequence number run.seq, fed run.text, ends with outcome;
\* orphaned: its document was closed during the run and is still closed
Outcome(a, run, outcome, orphaned) ==
  IF outcome = "throw" THEN [a EXCEPT !.threw = TRUE]
  ELSE [a EXCEPT !.seq = IF run.seq > @ THEN run.seq ELSE @,
                 !.text = run.text,
                 !.stale = @ \/ run.seq < a.seq,
                 !.orphan = @ \/ (orphaned /\ outcome = "results")]

\* mutant: output that cannot be decoded is stored as an empty result
handleShellCheckExecutionErrorClears(Q, id, err) ==
  LET path == Q.heap[id].d.active[1].settings.path
      met == ErrorMet(SetResults(Q, Q.heap[id].key, NullResults), err)
  IN IF AlreadyNotified(met, err, path)
     THEN CompleteTask([met EXCEPT !.toolStatusByPath =
                          MapSet(@, path, toolStatusByError(err))], id)
     ELSE [showShellCheckError(met, err) EXCEPT !.heap[id].run.phase = "notify",
                                                !.heap[id].run.err = err]

\* runLint, lines 839-841: the catch block, up to the await of the error message
handleShellCheckExecutionError(Q, id, err) ==
  LET path == Q.heap[id].d.active[1].settings.path
      met == ErrorMet(Q, err)
  IN IF AlreadyNotified(met, err, path)
     THEN CompleteTask([met EXCEPT !.toolStatusByPath =
                          MapSet(@, path, toolStatusByError(err))], id)
     ELSE [showShellCheckError(met, err) EXCEPT !.heap[id].run.phase = "notify",
                                                !.heap[id].run.err = err]

\* `await execa` returns and the output is parsed
ProcessExit(id, outcome) ==
  /\ id \in 1..Len(heap)
  /\ heap[id].run.phase = "exec"
  /\ LET k == heap[id].key
         run == heap[id].run
         logged == [Prov EXCEPT !.applied[k] =
                      Outcome(@, run, outcome, run.closed /\ k \notin openDocs)]
     IN CASE outcome = "results" ->
               Commit(CompleteTask(SetResults(logged, k,
                        ListResults(<<[diagnostic |-> run.text, codeAction |-> "fix"]>>)), id))
          [] outcome = "empty" ->
               Commit(CompleteTask(SetResults(logged, k, NullResults), id))
          [] OTHER ->
               Commit(handleShellCheckExecutionError(logged, id, "executionFailed"))
  /\ UNCHANGED <<hostVars, lastChange>>

\* handleShellCheckExecutionError after `await this.showShellCheckError`
RunErrorShown(id) ==
  /\ id \in 1..Len(heap)
  /\ heap[id].run.phase = "notify"
  /\ LET path == heap[id].d.active[1].settings.path IN
     Commit(CompleteTask([ErrorDismissed(Prov, heap[id].run.err, path) EXCEPT
                            !.toolStatusByPath =
                              MapSet(@, path, toolStatusByError(heap[id].run.err))], id))
  /\ UNCHANGED <<hostVars, lastChange>>

ProbeOutcomes == {"ok", "outdated", "executableNotFound", "executionFailed"}
RunOutcomes == {"results", "empty", "throw"}

Next ==
  \/ InitialLint
  \/ \E k \in Docs : handleDidOpenTextDocument(k)
  \/ \E k \in Docs : handleDidCloseTextDocument(k)
  \/ \E k \in Docs : handleDidChangeTextDocument(k)
  \/ \E k \in Docs : handleDidSaveTextDocument(k)
  \/ \E c \in Configs : handleDidChangeConfiguration(c)
  \/ \E c \in BagToSet(calls) : SettingsResolved(c)
  \/ \E c \in BagToSet(calls), o \in ProbeOutcomes : ProbeDone(c, o)
  \/ \E c \in BagToSet(calls) : UpdatePromptDone(c)
  \/ \E c \in BagToSet(calls) : ProbeErrorShown(c)
  \/ \E id \in 1..Len(heap) : TimerFires(id)
  \/ \E id \in 1..Len(heap) : CwdResolved(id)
  \/ \E id \in 1..Len(heap), o \in RunOutcomes : ProcessExit(id, o)
  \/ \E id \in 1..Len(heap) : RunErrorShown(id)

\* the extension is activated with document a open: the provider as constructed,
\* the timer of scheduleInitialLint pending
Init == InitHost({"a"}, {"a"}) /\ InitProvider /\ InitSched /\ InitStore /\ InitFix /\ InitArgs /\ InitSupp /\ InitProbe /\ InitFailure /\ InitGate /\ InitOffer /\ InitNorm /\ InitHunk

Spec == Init /\ [][Next]_vars

\* two documents in the workspace: a open at activation, b opened by an event
InitTwo ==
  /\ workspace = Docs
  /\ openDocs = {"a"}
  /\ text = [k \in Docs |-> 0]
  /\ config = DefaultConfig
  /\ budget = MaxEventsTwo
  /\ InitProvider /\ InitSched /\ InitStore /\ InitFix /\ InitArgs /\ InitSupp /\ InitProbe /\ InitFailure /\ InitGate /\ InitOffer /\ InitNorm /\ InitHunk

SpecTwo == InitTwo /\ [][Next]_vars

-----------------------------------------------------------------------------
(* Properties of the provider (Spec) *)

InFlight(k) == {i \in 1..Len(heap) : heap[i].key = k /\ heap[i].run.phase = "exec"}

\* C1: two lint processes for the same document key are never in flight at the
\* same time, also across close and reopen of the document.
C1_NoOverlappingRuns == \A k \in Docs : Cardinality(InFlight(k)) <= 1

\* C2: a run that was in flight when its document was closed, and that ends while
\* the document is still closed, has its result discarded: nothing of it is stored
\* as diagnostics or cached code actions of the closed document.
C2_ClosedRunDiscarded == \A k \in Docs : ~applied[k].orphan

TasksInFlight(k) == {i \in 1..Len(heap) : heap[i].key = k /\ heap[i].d.running}
TimersPending(k) == {i \in 1..Len(heap) : heap[i].key = k /\ heap[i].d.timer}

\* C5: every key has at most one task in flight and at most one pending timer, and
\* is in exactly one of Idle, TimerPending, Running, RunningWithPendingRerun.
C5_OneTaskOneTimerPerKey ==
  \A k \in Docs :
    /\ Cardinality(TasksInFlight(k)) <= 1
    /\ Cardinality(TimersPending(k)) <= 1
    /\ ~(TasksInFlight(k) # {} /\ TimersPending(k) # {})
    /\ \A i \in 1..Len(heap) : heap[i].key = k /\ heap[i].d.rerun # <<>> => heap[i].d.running

C7_NoStaleResult == \A k \in Docs : ~applied[k].stale

Quiescent ==
  /\ calls = EmptyBag
  /\ \A i \in 1..Len(heap) : ~heap[i].d.timer /\ ~heap[i].d.running

\* C8: when the last editor event was a change of an open, eligible on-type
\* document with the tool ready and no run of it failed, then once every timer has
\* fired and every run has ended the result applied last to the document is that of
\* a run on its final text.
C8_FinalTextApplied ==
  \A k \in Docs :
    (Quiescent /\ Eligible(k) /\ lastChange[k] /\ ~applied[k].threw) =>
      /\ applied[k].seq > 0
      /\ applied[k].text = text[k]

\* C11: while a document is closed, none of the caches of its key has an entry:
\* no settings snapshot, no delayer, no diagnostics, no cached code actions; also
\* when a triggerLint call for it was suspended at the moment of the close.
C11_ClosedKeyHasNoCache ==
  \A k \in Docs :
    k \notin openDocs =>
      /\ ~Has(settingsByUri, k)
      /\ ~Has(delayers, k)
      /\ ~Has(diagnosticCollection, k)
      /\ ~Has(codeActionCollection, k)


-----------------------------------------------------------------------------
(* The fix-all aggregation on its own: the quick fixes of one document, in
   discovery order, each carrying the text edits of its workspace edit.  A
   text edit is identified by its range [s, e): start inclusive, end
   exclusive, s = e for an insertion. *)

Ranges == {r \in [s : 0..MaxPos, e : 0..MaxPos] : r.s <= r.e}

RECURSIVE EditLists(_)
EditLists(n) ==
  IF n = 0 THEN {<<>>}
  ELSE LET S == EditLists(n - 1)
       IN S \cup {Append(l, r) : l \in {x \in S : Len(x) = n - 1}, r \in Ranges}

QuickFixes == EditLists(MaxEdits) \ {<<>>}

\* Range.contains(range): both ends of the other range lie within this one
contains(this, other) == this.s <= other.s /\ other.e <= this.e

mergeEdits(target, source) ==
  LET existing == target
      kept(edit) == ~\E i \in 1..Len(existing) : contains(existing[i], edit)
  IN existing \o SelectSeq(source, kept)

RECURSIVE buildFixAllAction(_)
buildFixAllAction(actions) ==
  IF actions = <<>> THEN <<>>
  ELSE mergeEdits(buildFixAllAction(SubSeq(actions, 1, Len(actions) - 1)),
                  actions[Len(actions)])

FixAll(action) ==
  /\ Len(fix.actions) < MaxFixes
  /\ fix' = [actions |-> Append(fix.actions, action),
             edit |-> buildFixAllAction(Append(fix.actions, action))]
  /\ UNCHANGED <<hostVars, provVars, schedVars, lastSet, argv, supp, probe, failure, gate, offer, norm, hunk>>

NextFix == \E action \in QuickFixes : FixAll(action)

SpecFix == InitAlone /\ [][NextFix]_vars

\* two ranges overlap when they share a character, or when one of them is an
\* insertion point strictly inside the other
Overlaps(r1, r2) == r1.s < r2.e /\ r2.s < r1.e

RECURSIVE Candidates(_)
Candidates(actions) ==
  IF actions = <<>> THEN <<>>
  ELSE Candidates(SubSeq(actions, 1, Len(actions) - 1)) \o actions[Len(actions)]

RangeSet(edits) == {edits[i] : i \in 1..Len(edits)}

\* C12: no two ranges of the aggregated fix-all edit overlap, whatever the
\* list of candidate fixes was: partial overlaps, a later range containing an
\* earlier one and several edits of one action included.
C12_AggregateHasNoOverlap ==
  \A i, j \in 1..Len(fix.edit) :
    i < j => ~Overlaps(fix.edit[i], fix.edit[j])

RECURSIVE FirstWins(_)
FirstWins(candidates) ==
  IF candidates = <<>> THEN <<>>
  ELSE LET accepted == FirstWins(SubSeq(candidates, 1, Len(candidates) - 1))
           c == candidates[Len(candidates)]
       IN IF \E i \in 1..Len(accepted) : Overlaps(accepted[i], c)
          THEN accepted
          ELSE Append(accepted, c)

\* C13: the aggregate is the first-wins selection of the candidates in
\* discovery order: a candidate is in it exactly when its range overlaps no
\* range accepted before it.
C13_FirstWins ==
  fix.edit = FirstWins(Candidates(fix.actions))

PairwiseNonOverlapping(edits) ==
  \A i, j \in 1..Len(edits) : i < j => ~Overlaps(edits[i], edits[j])

Reordered(actions, p) == [i \in 1..Len(actions) |-> actions[p[i]]]

\* C14: building the aggregate again from the same fixes gives the same edit,
\* and every permutation of a list of pairwise non-overlapping fixes gives
\* the same set of accepted ranges.
C14_IdempotentOrderInsensitive ==
  /\ buildFixAllAction(fix.actions) = fix.edit
  /\ PairwiseNonOverlapping(Candidates(fix.actions)) =>
       \A p \in Permutations(1..Len(fix.actions)) :
         RangeSet(buildFixAllAction(Reordered(fix.actions, p))) = RangeSet(fix.edit)

-----------------------------------------------------------------------------
(* Error notifications *)

\* C15: in every configuration epoch in which a lint attempt met the missing
\* executable, exactly one "executable not found" message has been opened for
\* the path: never two, and one again in the epoch after a configuration change.
C15_OneNotificationPerEpoch ==
  notice.missed => notice.shown = 1

\* the lint attempts that have just failed on a missing executable
MissingExecutableCalls ==
  {c \in BagToSet(calls) : c.pc = "notify" /\ errorLooksLikeMissingExecutable(c.err)}

\* C16: a lint attempt that fails because the executable is missing leaves the
\* diagnostics and the cached code actions of its document as they were before
\* the attempt: it has removed none of them.
C16_MissingExecutableKeepsResults ==
  \A c \in MissingExecutableCalls : ~c.cleared

\* a run of object id ends in this step with an error thrown in the try block
\* of runLint, or its error message is dismissed in this step
RunFails(id) ==
  \/ heap[id].run.phase = "exec" /\ heap'[id].run.phase = "notify"
  \/ heap[id].run.phase = "notify" /\ heap'[id].run.phase # "notify"

-----------------------------------------------------------------------------
(* Task failures (SpecSched) *)

Rejected(p) == startLog[p].res = "rejected"

\* the bursts opened after execution p was over
BurstsAfter(p) ==
  {i \in 1..Len(trigLog) : trigLog[i].at = "Idle" /\ startLog[p].n < i}

\* C19: an execution that ends with a failure leaves the scheduler working:
\* the key is not in flight on its account, the rerun recorded during it runs
\* (one run, of the latest task), and a trigger after it starts a timer whose
\* expiry runs the task of the last call of its burst.
C19_FailingTaskKeepsScheduler ==
  \A p \in 1..Len(startLog) :
    Rejected(p) =>
      /\ p = Len(startLog) => ~sd.running
      /\ CallsDuring(p) # {} =>
           /\ p < Len(startLog)
           /\ startLog[p + 1].via = "rerun"
           /\ startLog[p + 1].task = trigLog[SetMax(CallsDuring(p))].task
      /\ \A i \in BurstsAfter(p) :
           IF BurstSettled(i)
           THEN /\ Cardinality(StartsOfBurst(i)) = 1
                /\ \A q \in StartsOfBurst(i) : startLog[q].task = trigLog[BurstEnd(i)].task
           ELSE sd.timer /\ StartsOfBurst(i) = {}

C19_Witness ==
  \E p \in 1..Len(startLog) :
    /\ Rejected(p)
    /\ CallsDuring(p) # {}
    /\ p + 2 <= Len(startLog)
    /\ startLog[p + 1].via = "rerun"
    /\ Rejected(p + 1)
    /\ startLog[p + 2].via = "timer"

-----------------------------------------------------------------------------
(* Independence of the keys (SpecTwo) *)

\* what the provider holds for key k: its registered delayer, the state of
\* every delayer created for it with the phase of its run, its diagnostics and
\* its cached code actions
KeyView(k) ==
  [delayer |-> IF Has(delayers, k) THEN delayers[k] ELSE 0,
   sched |-> [i \in {j \in 1..Len(heap) : heap[j].key = k} |->
                [d |-> heap[i].d, phase |-> heap[i].run.phase]],
   diagnostics |-> IF Has(diagnosticCollection, k) THEN <<diagnosticCollection[k]>> ELSE <<>>,
   codeActions |-> IF Has(codeActionCollection, k) THEN <<codeActionCollection[k]>> ELSE <<>>]

\* a trigger for k would pass the checks of triggerLint and schedule a run
Lintable(k) ==
  /\ k \in openDocs
  /\ Has(settingsByUri, k)
  /\ settingsByUri[k].enabled
  /\ Has(toolStatusByPath, settingsByUri[k].path)
  /\ toolStatusByPath[settingsByUri[k].path].ok

\* C18: the failure of a run of one document, and the handling of that failure,
\* change neither the diagnostics and code actions, nor the scheduler state, nor
\* the eligibility for linting of any other document.
C18_FailureIsLocal ==
  [][\A id \in 1..Len(heap) :
       RunFails(id) =>
         \A k \in Docs \ {heap[id].key} :
           /\ KeyView(k)' = KeyView(k)
           /\ Lintable(k)' = Lintable(k)]_vars

\* the keys whose scheduler state or results this step changes
ChangedKeys == {k \in Docs : KeyView(k)' # KeyView(k)}

\* this step continues a lint of the whole workspace: it starts one, or it
\* completes a call that has further documents to visit
WorkspaceStep ==
  \/ config' # config
  \/ initialLint' # initialLint
  \/ \E c \in BagToSet(calls) : c.rest # <<>> /\ CopiesIn(c, calls') < CopiesIn(c, calls)

\* this step expires the timer of object id, starts its task or completes it
TaskStep(id) ==
  \/ heap[id].d.timer /\ ~heap'[id].d.timer
  \/ heap'[id].run.phase # heap[id].run.phase
  \/ heap'[id].d.active # heap[id].d.active

\* this step is an editor event of document k or completes a triggerLint call for it
TriggerStep(k) ==
  \/ text'[k] # text[k]
  \/ (k \in openDocs) # (k \in openDocs')
  \/ \E c \in BagToSet(calls) : c.doc = k /\ CopiesIn(c, calls') < CopiesIn(c, calls)

\* C20: a trigger, a timer expiry, a task start and a task completion for one
\* key change the scheduler state and the results of that key only.
C20_KeysIndependent ==
  [][~WorkspaceStep =>
       /\ Cardinality(ChangedKeys) <= 1
       /\ \A id \in 1..Len(heap) : TaskStep(id) => ChangedKeys \subseteq {heap[id].key}
       /\ \A k \in Docs : TriggerStep(k) => ChangedKeys \subseteq {k}]_vars

\* runs of both keys in flight at once, one of the documents with results stored
C20_Witness ==
  \E i, j \in 1..Len(heap) :
    /\ heap[i].key = "a" /\ heap[j].key = "b"
    /\ heap[i].run.phase = "exec" /\ heap[j].run.phase = "exec"
    /\ Has(diagnosticCollection, "a") \/ Has(diagnosticCollection, "b")

-----------------------------------------------------------------------------
(* The completion of one lint invocation on its own: runLint from the return
   of execa on, for any exit code and any standard output *)

ExitCodes == {0, 1, 2}

\* standard output: nothing, text the parser decodes into a list of findings,
\* or text the parser cannot decode
Stdouts ==
  {[kind |-> "empty", list |-> <<>>], [kind |-> "garbage", list |-> <<>>]}
    \cup {[kind |-> "decodable", list |-> l] : l \in ListsUpTo(MaxResults)}

ProcessResults == [exitCode : ExitCodes, stdout : Stdouts]

\* mutant: a non-zero exit code is an error (execa without reject: false)
runLintThrowsOnExitCode(result) ==
  result.exitCode # 0 \/ result.stdout.kind = "garbage"

\* the try block of runLint throws: execa resolves for every exit code
\* (reject: false), parser.parse fails on output it cannot decode
runLintThrows(result) == result.stdout.kind = "garbage"

\* mutant: a run without findings stores nothing and removes nothing
applyOutputKeepsOnEmpty(dc, cac, uri, stdout) ==
  IF stdout.kind # "empty" /\ Len(stdout.list) > 0
  THEN setResultCollections(dc, cac, uri, ListResults(stdout.list))
  ELSE [diagnosticCollection |-> dc, codeActionCollection |-> cac]

\* runLint, lines 835-838
applyOutput(dc, cac, uri, stdout) ==
  setResultCollections(dc, cac, uri,
    IF stdout.kind # "empty" THEN ListResults(stdout.list) ELSE NullResults)

RunCompletes(uri, result) ==
  /\ Has(toolStatusByPath, DefaultConfig.path)
  /\ toolStatusByPath[DefaultConfig.path].ok
  /\ LET threw == runLintThrows(result)
         R == IF threw
              THEN [diagnosticCollection |-> diagnosticCollection,
                    codeActionCollection |-> codeActionCollection]
              ELSE applyOutput(diagnosticCollection, codeActionCollection, uri, result.stdout)
     IN /\ diagnosticCollection' = R.diagnosticCollection
        /\ codeActionCollection' = R.codeActionCollection
        /\ toolStatusByPath' =
             IF threw
             THEN MapSet(toolStatusByPath, DefaultConfig.path, toolStatusByError("executionFailed"))
             ELSE toolStatusByPath
        /\ lastSet' = [done |-> TRUE, uri |-> uri, arg |-> NoResults,
                       dc |-> diagnosticCollection, cac |-> codeActionCollection,
                       result |-> result, shown |-> threw]
  /\ UNCHANGED <<hostVars, schedVars, settingsByUri, delayers, heap, calls, initialLint,
                 runSeq, applied, mon, lastChange, notifiedMissingExecutable, notice, fix, argv, supp, probe, failure, gate, offer, norm, hunk>>

NextRun == \E uri \in Docs, result \in ProcessResults : RunCompletes(uri, result)

\* the tool has been probed and is available
InitRun ==
  /\ InitHost({}, {}) /\ InitSched /\ InitStore /\ InitFix /\ InitArgs /\ InitSupp /\ InitProbe /\ InitFailure /\ InitGate /\ InitOffer /\ InitNorm /\ InitHunk
  /\ settingsByUri = EmptyMap
  /\ toolStatusByPath = MapSet(EmptyMap, DefaultConfig.path, StatusOk)
  /\ delayers = EmptyMap
  /\ diagnosticCollection = EmptyMap
  /\ codeActionCollection = EmptyMap
  /\ heap = <<>>
  /\ calls = EmptyBag
  /\ initialLint = TRUE
  /\ runSeq = 0
  /\ applied = [k \in Docs |-> [seq |-> 0, text |-> 0, stale |-> FALSE,
                                 orphan |-> FALSE, threw |-> FALSE]]
  /\ mon = [k \in Docs |-> MonNone]
  /\ lastChange = [k \in Docs |-> FALSE]
  /\ notifiedMissingExecutable = {}
  /\ notice = NoNotice

SpecRun == InitRun /\ [][NextRun]_vars

ZeroFindings(stdout) ==
  stdout.kind = "empty" \/ (stdout.kind = "decodable" /\ stdout.list = <<>>)

\* the cached quick fixes provideCodeActions can offer for a document
CachedQuickFixes(k) ==
  IF Has(codeActionCollection, k)
  THEN {i \in 1..Len(codeActionCollection[k]) : codeActionCollection[k][i].codeAction # "none"}
  ELSE {}

\* C21: after a run that completed with zero findings (empty output, or output
\* that parses to an empty list) the document has no diagnostics, no entry in
\* the code-action cache and so no cached quick fix.
C21_ZeroFindingsClear ==
  (lastSet.done /\ ZeroFindings(lastSet.result.stdout)) =>
    /\ ~Has(diagnosticCollection, lastSet.uri)
    /\ ~Has(codeActionCollection, lastSet.uri)
    /\ CachedQuickFixes(lastSet.uri) = {}

C21_Witness ==
  /\ lastSet.done /\ lastSet.result.stdout = [kind |-> "decodable", list |-> <<>>]
  /\ Has(lastSet.dc, lastSet.uri)
  /\ \E i \in 1..Len(lastSet.cac[lastSet.uri]) : lastSet.cac[lastSet.uri][i].codeAction = "fix"
  /\ \E k \in Docs \ {lastSet.uri} : Has(diagnosticCollection, k)

\* C25: a run that exits with a non-zero code and output the parser decodes
\* has the output applied like any other run, opens no error message and leaves
\* the tool available; with empty output the results are cleared, again without
\* a message or a status change.
C25_ExitCodeIsNoFailure ==
  (lastSet.done /\ lastSet.result.stdout.kind # "garbage") =>
    /\ ~lastSet.shown
    /\ toolStatusByPath[DefaultConfig.path].ok
    /\ [diagnosticCollection |-> diagnosticCollection,
        codeActionCollection |-> codeActionCollection]
         = applyOutput(lastSet.dc, lastSet.cac, lastSet.uri, lastSet.result.stdout)
    /\ (lastSet.result.stdout.kind = "decodable" /\ Len(lastSet.result.stdout.list) > 0) =>
         /\ Has(diagnosticCollection, lastSet.uri)
         /\ diagnosticCollection[lastSet.uri] = Diagnostics(lastSet.result.stdout.list)
         /\ codeActionCollection[lastSet.uri] = lastSet.result.stdout.list

C25_Witness ==
  /\ lastSet.done
  /\ lastSet.result.exitCode = 1
  /\ lastSet.result.stdout.kind = "decodable"
  /\ Len(lastSet.result.stdout.list) = 2
  /\ Has(lastSet.dc, lastSet.uri)
  /\ lastSet.dc[lastSet.uri] # diagnosticCollection[lastSet.uri]

-----------------------------------------------------------------------------
(* Settings, enablement and trigger mode *)

\* the run of object id completes in this step and its result is applied
RunApplies(id) ==
  heap[id].run.phase = "exec" /\ heap'[id].run.phase \notin {"exec", "notify"}

\* C22: a result is applied only by a run that was triggered with the settings
\* now in force: never by a run whose settings were resolved before the latest
\* configuration change, and never against a different cached snapshot.
C22_ResultFromCurrentSettings ==
  [][\A id \in 1..Len(heap) :
       RunApplies(id) =>
         /\ heap[id].d.active[1].settings = config
         /\ Has(settingsByUri, heap[id].key) =>
              settingsByUri[heap[id].key] = heap[id].d.active[1].settings]_vars

\* C23: while the settings snapshot applied to an open document has linting
\* disabled, the document has neither diagnostics nor cached code actions, also
\* when a run that started before the disablement completes afterwards.
C23_DisabledHasNoResults ==
  \A k \in openDocs :
    (Has(settingsByUri, k) /\ ~settingsByUri[k].enabled) =>
      /\ ~Has(diagnosticCollection, k)
      /\ ~Has(codeActionCollection, k)

\* the run-lint command of the editor showing document k
runLintCommand(k) ==
  /\ EventOn(k)
  /\ k \in openDocs
  /\ Commit(TriggerByEvent(Prov, "command", k, NoSrc))
  /\ lastChange' = [d \in Docs |-> FALSE]
  /\ UNCHANGED <<workspace, openDocs, text, config>>

RunTriggers == {"onType", "onSave", "manual"}

ModeConfigs == {[DefaultConfig EXCEPT !.trigger = m] : m \in RunTriggers}

\* two documents in the workspace, a open at activation, in any trigger mode
InitMode ==
  /\ workspace = Docs
  /\ openDocs = {"a"}
  /\ text = [k \in Docs |-> 0]
  /\ config \in ModeConfigs
  /\ budget = MaxEventsTwo
  /\ InitProvider /\ InitSched /\ InitStore /\ InitFix /\ InitArgs /\ InitSupp /\ InitProbe /\ InitFailure /\ InitGate /\ InitOffer /\ InitNorm /\ InitHunk

NextMode ==
  \/ InitialLint
  \/ \E k \in Docs : handleDidOpenTextDocument(k)
  \/ \E k \in Docs : handleDidCloseTextDocument(k)
  \/ \E k \in Docs : handleDidChangeTextDocument(k)
  \/ \E k \in Docs : handleDidSaveTextDocument(k)
  \/ \E k \in Docs : runLintCommand(k)
  \/ \E c \in Configs : handleDidChangeConfiguration(c)
  \/ \E c \in BagToSet(calls) : SettingsResolved(c)
  \/ \E c \in BagToSet(calls), o \in ProbeOutcomes : ProbeDone(c, o)
  \/ \E c \in BagToSet(calls) : UpdatePromptDone(c)
  \/ \E c \in BagToSet(calls) : ProbeErrorShown(c)
  \/ \E id \in 1..Len(heap) : TimerFires(id)
  \/ \E id \in 1..Len(heap) : CwdResolved(id)
  \/ \E id \in 1..Len(heap), o \in RunOutcomes : ProcessExit(id, o)
  \/ \E id \in 1..Len(heap) : RunErrorShown(id)

SpecMode == InitMode /\ [][NextMode]_vars


\* a run of key k is scheduled in provider state Q: the timer of its delayer is
\* pending or a rerun is recorded
Scheduled(Q, k) ==
  /\ Has(Q.delayers, k)
  /\ LET d == Q.heap[Q.delayers[k]].d IN d.timer \/ d.rerun # <<>>

\* provider state Q has the delayer of key k as it is now
NothingScheduled(Q, k) ==
  /\ Has(Q.delayers, k) = Has(delayers, k)
  /\ Has(delayers, k) => Q.heap[Q.delayers[k]].d = heap[delayers[k]].d

\* an event of kind ev passes the trigger mode
ModeAllows(ev, mode) ==
  CASE ev = "change" -> mode = "onType"
    [] ev = "save" -> mode = "onSave"
    [] OTHER -> TRUE

EventOf(cond) ==
  CASE cond = "onType" -> "change"
    [] cond = "onSave" -> "save"
    [] OTHER -> "open"

\* this step ends the suspended triggerLint call c
CallFinishes(c) ==
  /\ CopiesIn(c, calls') < CopiesIn(c, calls)
  /\ \A x \in BagToSet(calls') : x.doc = c.doc => CopiesIn(x, calls') <= CopiesIn(x, calls)

\* C24: for a document that is enabled and whose tool is ready, a change event
\* schedules a run exactly in on-type mode, a save event exactly in on-save mode,
\* the run-lint command in every mode; a triggerLint call that was suspended
\* (document opened, configuration changed, first change or save) schedules at
\* its end by the same rule, so that open and configuration change schedule in
\* every mode and manual mode schedules for neither change nor save.
C24_TriggerMode ==
  [][/\ \A k \in Docs, ev \in {"change", "save", "command"} :
          Lintable(k) =>
            LET Q == TriggerByEvent(Prov, ev, k, NoSrc) IN
            IF ModeAllows(ev, settingsByUri[k].trigger)
            THEN Scheduled(Q, k) ELSE NothingScheduled(Q, k)
     /\ \A c \in BagToSet(calls) :
          (CallFinishes(c) /\ Lintable(c.doc)') =>
            IF ModeAllows(EventOf(c.cond), settingsByUri'[c.doc].trigger)
            THEN Scheduled(Prov, c.doc)'
            ELSE /\ Has(delayers', c.doc) = Has(delayers, c.doc)
                 /\ Has(delayers, c.doc) =>
                      heap'[delayers'[c.doc]].d = heap[delayers[c.doc]].d
    ]_vars

\* in manual mode the run-lint command has scheduled a run of a ready document
\* after the run of the initial lint had started
C24_Witness ==
  \E k \in openDocs :
    /\ Lintable(k) /\ settingsByUri[k].trigger = "manual"
    /\ budget < MaxEventsTwo /\ text[k] = 0
    /\ Scheduled(Prov, k)
    /\ heap[delayers[k]].run.seq >= 1


-----------------------------------------------------------------------------
(* The argument vector of a lint invocation on its own *)

SeqsUpTo(S, n) == UNION {[1..m -> S] : m \in 0..n}

RuleIds == {"1090", "2086"}
UserArgs == {"-x", "-e", "-"}
FileExts == {".bash", ".ksh", ".dash", ".sh", ""}
OutputFormats == {"json", "json1"}

RECURSIVE Join(_)
\* exclude.join(",")
Join(ids) ==
  IF ids = <<>> THEN ""
  ELSE IF Len(ids) = 1 THEN ids[1]
  ELSE ids[1] \o "," \o Join(Tail(ids))

\* fileExt.slice(1)
Slice1(fileExt) ==
  CASE fileExt = ".bash" -> "bash"
    [] fileExt = ".ksh" -> "ksh"
    [] fileExt = ".dash" -> "dash"
    [] fileExt = ".sh" -> "sh"
    [] OTHER -> ""

\* mutant: the extra arguments of the user are placed before the dialect flag
buildArgsUserBeforeDialect(format, exclude, fileExt, customArgs) ==
  LET a1 == <<"-f", format>>
      a2 == IF Len(exclude) > 0 THEN a1 \o <<"-e", Join(exclude)>> ELSE a1
      a3 == IF Len(customArgs) > 0 THEN a2 \o customArgs ELSE a2
      a4 == IF fileExt \in {".bash", ".ksh", ".dash"}
            THEN a3 \o <<"-s", Slice1(fileExt)>> ELSE a3
  IN Append(a4, "-")

\* runLint, lines 801-815
buildArgs(format, exclude, fileExt, customArgs) ==
  LET a1 == <<"-f", format>>
      a2 == IF Len(exclude) > 0 THEN a1 \o <<"-e", Join(exclude)>> ELSE a1
      a3 == IF fileExt \in {".bash", ".ksh", ".dash"}
            THEN a2 \o <<"-s", Slice1(fileExt)>> ELSE a2
      a4 == IF Len(customArgs) > 0 THEN a3 \o customArgs ELSE a3
  IN Append(a4, "-")

\* one lint invocation builds its argument vector
BuildArgs(format, exclude, fileExt, customArgs) ==
  /\ ~argv.done
  /\ argv' = [done |-> TRUE, format |-> format, exclude |-> exclude, fileExt |-> fileExt,
              customArgs |-> customArgs,
              args |-> buildArgs(format, exclude, fileExt, customArgs)]
  /\ UNCHANGED <<hostVars, provVars, schedVars, lastSet, fix, supp, probe, failure, gate, offer, norm, hunk>>

NextArgs ==
  \E format \in OutputFormats, exclude \in SeqsUpTo(RuleIds, MaxExclude),
     fileExt \in FileExts, customArgs \in SeqsUpTo(UserArgs, MaxCustomArgs) :
    BuildArgs(format, exclude, fileExt, customArgs)

SpecArgs == InitAlone /\ [][NextArgs]_vars

\* C26: the argument vector is the format flag and its value, then "-e" and the
\* comma-joined rule ids exactly when the exclusion list is non-empty, then "-s"
\* and the dialect exactly when the extension is .bash, .ksh or .dash, then the
\* extra arguments of the user unchanged and in order, then the single "-".
C26_ArgumentOrder ==
  argv.done =>
    LET a == argv.args
        e == IF argv.exclude # <<>> THEN 2 ELSE 0
        d == IF argv.fileExt \in {".bash", ".ksh", ".dash"} THEN 2 ELSE 0
        n == Len(argv.customArgs)
    IN /\ Len(a) = 2 + e + d + n + 1
       /\ a[1] = "-f" /\ a[2] = argv.format
       /\ e = 2 => a[3] = "-e" /\ a[4] = Join(argv.exclude)
       /\ d = 2 => a[3 + e] = "-s" /\ "." \o a[4 + e] = argv.fileExt
       /\ \A i \in 1..n : a[2 + e + d + i] = argv.customArgs[i]
       /\ a[Len(a)] = "-"

\* two excluded rules, a .ksh file and extra arguments that look like derived flags
C26_Witness ==
  /\ argv.done
  /\ Len(argv.exclude) = 2 /\ argv.exclude[1] # argv.exclude[2]
  /\ argv.fileExt = ".ksh"
  /\ argv.customArgs = <<"-", "-e">>
  /\ argv.args[4] = "1090,2086"


-----------------------------------------------------------------------------
(* The suppression command on its own: a document is a sequence of lines, a
   line a sequence of characters *)

Chars == {" ", "\t", "x"}
Whitespace == {" ", "\t"}
LineTexts == SeqsUpTo(Chars, MaxLineLen)
OtherLines == {<<>>, <<" ", "x">>}
LanguageIds == LANGUAGES \cup {"python"}
CommandRuleIds == {"SC2086", "SC1090"}

\* the documents the command is run on, with the 0-based number of the target line
CommandInputs ==
  UNION {{[lines |-> [i \in 1..n |-> IF i = l + 1 THEN t ELSE o[i]], line |-> l] :
             t \in LineTexts, o \in [1..n -> OtherLines]} :
           n \in 1..MaxLines, l \in 0..(MaxLines - 1)} 

\* TextLine.firstNonWhitespaceCharacterIndex: the length of a line of whitespace only
firstNonWhitespaceCharacterIndex(line) ==
  LET idx == {i \in 1..Len(line) : line[i] \notin Whitespace}
  IN IF idx = {} THEN Len(line)
     ELSE (CHOOSE i \in idx : \A j \in idx : i <= j) - 1

RECURSIVE getText(_), splitLines(_, _)

\* the text of a document: its lines separated by line feeds
getText(lines) ==
  IF Len(lines) = 1 THEN lines[1]
  ELSE lines[1] \o <<"\n">> \o getText(Tail(lines))

\* the lines of a text; cur: the characters of the line being read
splitLines(chars, cur) ==
  IF chars = <<>> THEN <<cur>>
  ELSE IF Head(chars) = "\n" THEN <<cur>> \o splitLines(Tail(chars), <<>>)
  ELSE splitLines(Tail(chars), Append(cur, Head(chars)))

RECURSIVE offsetAt(_, _, _)
\* the offset in the text of the position (line, character), both 0-based
offsetAt(lines, line, character) ==
  IF line = 0 THEN character
  ELSE Len(lines[1]) + 1 + offsetAt(Tail(lines), line - 1, character)

\* applyEdit of TextEdit.insert(position, newText)
applyInsert(lines, line, character, newText) ==
  LET flat == getText(lines)
      off == offsetAt(lines, line, character)
  IN splitLines(SubSeq(flat, 1, off) \o newText \o SubSeq(flat, off + 1, Len(flat)), <<>>)

\* the comment of the suppression, one token of the text
DisableComment(ruleId) == "# shellcheck disable=" \o ruleId

\* mutant: the comment is inserted at the start of the line, without the indent
disableCheckForLineAtLineStart(lang, lines, ruleId, line) ==
  IF lang \notin LANGUAGES THEN lines
  ELSE applyInsert(lines, line, 0, <<DisableComment(ruleId), "\n">>)

\* disableCheckForLine, lines 720-743
disableCheckForLine(lang, lines, ruleId, line) ==
  IF lang \notin LANGUAGES THEN lines
  ELSE
    LET targetLine == lines[line + 1]
        fnw == firstNonWhitespaceCharacterIndex(targetLine)
        indent == SubSeq(targetLine, 1, IF fnw > 0 THEN fnw ELSE 0)
    IN applyInsert(lines, line, fnw, <<DisableComment(ruleId), "\n">> \o indent)

\* the suppression command runs once
DisableCheckCommand(lang, in, ruleId) ==
  /\ ~supp.done
  /\ in.line < Len(in.lines)
  /\ supp' = [done |-> TRUE, languageId |-> lang, line |-> in.line, ruleId |-> ruleId,
              before |-> in.lines,
              after |-> disableCheckForLine(lang, in.lines, ruleId, in.line)]
  /\ UNCHANGED <<hostVars, provVars, schedVars, lastSet, fix, argv, probe, failure, gate, offer, norm, hunk>>

NextSupp ==
  \E lang \in LanguageIds, in \in CommandInputs, ruleId \in CommandRuleIds :
    DisableCheckCommand(lang, in, ruleId)

SpecSupp == InitAlone /\ [][NextSupp]_vars

\* the longest prefix of whitespace of a line
LeadingWhitespace(line) ==
  LET n == CHOOSE i \in 0..Len(line) :
             /\ \A j \in 1..i : line[j] \in Whitespace
             /\ i < Len(line) => line[i + 1] \notin Whitespace
  IN SubSeq(line, 1, n)

\* C27: on an allowed document the suppression command for rule R on line L adds
\* one line directly above L, made of the leading whitespace of L and
\* "# shellcheck disable=R"; L itself and every other line keep their text. On a
\* document that is not allowed the command changes nothing.
C27_SuppressionKeepsIndent ==
  supp.done =>
    LET b == supp.before
        a == supp.after
        l == supp.line + 1
    IN IF supp.languageId \in LANGUAGES
       THEN /\ Len(a) = Len(b) + 1
            /\ \A i \in 1..(l - 1) : a[i] = b[i]
            /\ a[l] = LeadingWhitespace(b[l]) \o <<DisableComment(supp.ruleId)>>
            /\ a[l + 1] = b[l]
            /\ \A i \in (l + 1)..Len(b) : a[i + 1] = b[i]
       ELSE a = b

\* the command has run on the second line of a document, indented with a space
\* and a tab
C27_Witness ==
  /\ supp.done /\ supp.languageId \in LANGUAGES
  /\ supp.line = 1 /\ Len(supp.before) = 2
  /\ supp.before[2] = <<" ", "\t", "x">>
  /\ supp.after[2] = <<" ", "\t", "# shellcheck disable=SC2086">>


-----------------------------------------------------------------------------
(* The version check *)

\* C28: the version check never holds back scheduling: while the upgrade
\* suggestion of a tool below the minimum version is open, the document whose
\* trigger probed the tool (open, initial lint or configuration change), if it
\* is enabled and its tool has status ok, has a run scheduled, in flight or done.
C28_VersionCheckIsAdvisory ==
  \A c \in BagToSet(calls) :
    (c.pc = "prompt" /\ c.cond = "any" /\ Lintable(c.doc)) =>
      \/ Scheduled(Prov, c.doc)
      \/ \E i \in KeyObjs(Prov, c.doc) : heap[i].d.running
      \/ runSeq > 0


-----------------------------------------------------------------------------
(* Configuration changes *)

\* this step starts a run of the delayer object id
RunStarts(id) ==
  /\ heap'[id].run.phase = "cwd"
  /\ heap'[id].run.seq # heap[id].run.seq

\* C29: a configuration change leaves no cached settings snapshot and no cached
\* tool status behind, and every run that starts uses a snapshot of the
\* configuration that is current when it starts.
C29_ChangeDropsCaches ==
  [][/\ config' # config => settingsByUri' = EmptyMap /\ toolStatusByPath' = EmptyMap
     /\ \A id \in 1..Len(heap) :
          RunStarts(id) => heap'[id].d.active[1].settings = config'
    ]_vars


-----------------------------------------------------------------------------
(* The version probe *)

\* the calls of updateConfiguration that wait for the version probe of a path
\* or for the notification of its error: the status of the path is not yet cached
Probing(path) ==
  {c \in BagToSet(calls) : c.pc \in {"probe", "notify"} /\ c.settings.path = path}

\* C30: the version probe of a path runs at most once in a configuration epoch:
\* no two calls that took their settings from the same configuration wait for
\* the probe of the same path, or for the notification of its error, at once.
C30_ProbeOncePerPath ==
  \A c1 \in BagToSet(calls) :
    c1.pc \in {"probe", "notify"} =>
      /\ \A c2 \in Probing(c1.settings.path) : c2.settings = c1.settings => c2 = c1
      /\ CopiesIn(c1, calls) = 1


-----------------------------------------------------------------------------
(* The version probe on its own: the output of `shellcheck -V` is a sequence of
   pieces, each a marker, white space, the letter v, a version or other text *)

OutPieces == {"version:", "VERSION:", " ", "\n", "v", "0.9.0", "x"}
OutSpace == {" ", "\n"}
ProbeOutputs == SeqsUpTo(OutPieces, MaxOut)
NoVersion == [threw |-> TRUE, version |-> ""]

\* String.toLowerCase on one piece
toLowerCase(piece) == IF piece = "VERSION:" THEN "version:" ELSE piece

RECURSIVE trimStart(_), trimEnd(_), firstField(_)
trimStart(t) == IF t # <<>> /\ Head(t) \in OutSpace THEN trimStart(Tail(t)) ELSE t
trimEnd(t) == IF t # <<>> /\ t[Len(t)] \in OutSpace THEN trimEnd(SubSeq(t, 1, Len(t) - 1)) ELSE t
\* remainder.split(/\s/u)[0]
firstField(t) == IF t = <<>> \/ Head(t) \in OutSpace THEN <<>> ELSE <<Head(t)>> \o firstField(Tail(t))

\* semver.parse (library): a version, with or without a leading v
semverValid(t) == t \in {<<"0.9.0">>, <<"v", "0.9.0">>}

\* mutant: output without a marker is read as a version from its start
parseToolVersionNoMarker(stdout) ==
  LET token == firstField(trimEnd(trimStart(stdout)))
      normalized == IF token # <<>> /\ Head(token) = "v" THEN Tail(token) ELSE token
  IN IF semverValid(normalized) THEN [threw |-> FALSE, version |-> normalized[Len(normalized)]]
     ELSE NoVersion

\* parseToolVersion, tool-check.ts lines 29-46
parseToolVersion(stdout) ==
  LET lower == [i \in 1..Len(stdout) |-> toLowerCase(stdout[i])]
      found == {i \in 1..Len(stdout) : lower[i] = "version:"}
  IN IF found = {} THEN NoVersion
     ELSE
       LET index == CHOOSE i \in found : \A j \in found : i <= j
           remainder == trimEnd(trimStart(SubSeq(stdout, index + 1, Len(stdout))))
           token == firstField(remainder)
           normalized == IF token # <<>> /\ Head(token) = "v" THEN Tail(token) ELSE token
       IN IF semverValid(normalized)
          THEN [threw |-> FALSE, version |-> normalized[Len(normalized)]]
          ELSE NoVersion

\* updateConfiguration, lines 554-567: the path has no status, the tool is probed
ProbeTool(stdout) ==
  /\ ~Has(toolStatusByPath, DefaultConfig.path)
  /\ LET r == parseToolVersion(stdout)
     IN /\ toolStatusByPath' =
             MapSet(toolStatusByPath, DefaultConfig.path,
                    IF r.threw THEN toolStatusByError("unexpectedResponse") ELSE StatusOk)
        /\ probe' = [done |-> TRUE, stdout |-> stdout, threw |-> r.threw,
                     version |-> r.version, started |-> FALSE]
  /\ UNCHANGED <<hostVars, schedVars, settingsByUri, delayers, diagnosticCollection,
                 codeActionCollection, heap, calls, initialLint, runSeq, applied, mon,
                 lastChange, notifiedMissingExecutable, notice, lastSet, fix, argv, supp, failure, gate, offer, norm, hunk>>

\* triggerLint line 762 and runLint lines 790-793: a lint process starts
LintStarts ==
  /\ Has(toolStatusByPath, DefaultConfig.path)
  /\ toolStatusByPath[DefaultConfig.path].ok
  /\ ~probe.started
  /\ probe' = [probe EXCEPT !.started = TRUE]
  /\ UNCHANGED <<hostVars, provVars, schedVars, lastSet, fix, argv, supp, failure, gate, offer, norm, hunk>>

\* handleDidChangeConfiguration, line 471: the status cache is cleared
ProbeEpochEnds ==
  /\ probe.done
  /\ toolStatusByPath' = EmptyMap
  /\ probe' = [done |-> FALSE, stdout |-> <<>>, threw |-> FALSE, version |-> "",
               started |-> FALSE]
  /\ UNCHANGED <<hostVars, schedVars, settingsByUri, delayers, diagnosticCollection,
                 codeActionCollection, heap, calls, initialLint, runSeq, applied, mon,
                 lastChange, notifiedMissingExecutable, notice, lastSet, fix, argv, supp, failure, gate, offer, norm, hunk>>

NextProbe ==
  \/ \E stdout \in ProbeOutputs : ProbeTool(stdout)
  \/ LintStarts
  \/ ProbeEpochEnds

SpecProbe == InitAlone /\ [][NextProbe]_vars

\* the pieces after the first marker, up to the next white space after the token
TokenAfterMarker(stdout) ==
  LET marks == {i \in 1..Len(stdout) : stdout[i] \in {"version:", "VERSION:"}}
      m == CHOOSE i \in marks : \A j \in marks : i <= j
      starts == {i \in (m + 1)..Len(stdout) : stdout[i] \notin OutSpace}
  IN IF starts = {} THEN <<>>
     ELSE LET b == CHOOSE i \in starts : \A j \in starts : i <= j
              ends == {i \in b..Len(stdout) : stdout[i] \in OutSpace}
              e == IF ends = {} THEN Len(stdout) + 1
                   ELSE CHOOSE i \in ends : \A j \in ends : i <= j
          IN SubSeq(stdout, b, e - 1)

\* the token is a semantic version for the library, as it stands or without its
\* leading v
IsVersionToken(token) ==
  \/ semverValid(token)
  \/ token # <<>> /\ Head(token) = "v" /\ semverValid(Tail(token))

BadProbeOutput(stdout) ==
  \/ \A i \in 1..Len(stdout) : stdout[i] \notin {"version:", "VERSION:"}
  \/ ~IsVersionToken(TokenAfterMarker(stdout))

-----------------------------------------------------------------------------
(* The classification of a raised error on its own.  A value is undefined, a
   string or a number; a text is a sequence of pieces *)

Undefined == [t |-> "undefined"]
StringOf(s) == [t |-> "string", v |-> s]
NumberOf(n) == [t |-> "number", v |-> n]

ErrorCodes == {Undefined, StringOf("ENOENT"), StringOf("EACCES"), NumberOf("127"), NumberOf("1")}
Errnos == {Undefined, StringOf("ENOENT"), NumberOf("-2")}
ErrorExitCodes == {Undefined, NumberOf("1"), NumberOf("127"), NumberOf("9009")}
Boom == StringOf(<<"boom">>)
ErrorTexts ==
  {Undefined, StringOf(<<>>), Boom,
   StringOf(<<"sh:", "Command Not Found">>),
   StringOf(<<"No such file or directory", "x">>),
   StringOf(<<"x", "is not recognized as an internal or external command">>),
   StringOf(<<"Is Not Recognised As An Internal Or External Command">>)}

\* the values that a probe or an invocation can raise
RaisedErrors ==
  [kind : {"Error", "object", "primitive"}, code : ErrorCodes, errno : Errnos,
   exitCode : ErrorExitCodes,
   stderr : {Undefined, Boom, StringOf(<<"sh:", "Command Not Found">>)},
   stdout : {Undefined, StringOf(<<"No such file or directory", "x">>)},
   shortMessage : {Undefined, StringOf(<<"x", "is not recognized as an internal or external command">>)},
   originalMessage : {Undefined, StringOf(<<"Is Not Recognised As An Internal Or External Command">>)},
   message : ErrorTexts]

\* value.toLowerCase(), piece by piece
lowerPiece(piece) ==
  CASE piece = "Command Not Found" -> "command not found"
    [] piece = "No such file or directory" -> "no such file or directory"
    [] piece = "Is Not Recognised As An Internal Or External Command" ->
         "is not recognised as an internal or external command"
    [] OTHER -> piece

MissingPhrases ==
  {"command not found", "no such file or directory",
   "is not recognized as an internal or external command",
   "is not recognised as an internal or external command"}

\* text.includes(phrase) for one of the phrases, on the lower-cased text
includesMissingPhrase(value) ==
  \E i \in 1..Len(value) : lowerPiece(value[i]) \in MissingPhrases

\* mutant: only the code and the exit code are looked at
missingExecutableByCode(error) ==
  IF error.kind = "primitive" THEN FALSE
  ELSE
    LET numericExitCode == IF error.code.t = "number" THEN error.code ELSE error.exitCode
    IN \/ error.code.t = "string" /\ error.code.v = "ENOENT"
       \/ error.errno.t = "string" /\ error.errno.v = "ENOENT"
       \/ numericExitCode.t = "number" /\ numericExitCode.v \in {"127", "9009"}

\* errorLooksLikeMissingExecutable, lines 292-336, on the full error value
missingExecutable(error) ==
  IF error.kind = "primitive" THEN FALSE
  ELSE
    LET numericExitCode == IF error.code.t = "number" THEN error.code ELSE error.exitCode
        haystacks == {f \in {error.stderr, error.stdout, error.shortMessage,
                             error.originalMessage, error.message} :
                        f.t = "string" /\ Len(f.v) > 0}
    IN \/ error.code.t = "string" /\ error.code.v = "ENOENT"
       \/ error.errno.t = "string" /\ error.errno.v = "ENOENT"
       \/ numericExitCode.t = "number" /\ numericExitCode.v \in {"127", "9009"}
       \/ \E f \in haystacks : includesMissingPhrase(f.v)

\* the condition of toolStatusByError, lines 344-349: the kind of error that the
\* provider hands to toolStatusByError and showShellCheckError
ErrorKind(error) ==
  IF error.kind = "Error" /\ missingExecutable(error)
  THEN "executableNotFound" ELSE "executionFailed"

\* showShellCheckError, lines 865-875: the message that is shown
errorMessage(error) ==
  IF error.kind = "Error"
  THEN IF missingExecutable(error) THEN [kind |-> "notFound", text |-> "none"]
       ELSE [kind |-> "failed", text |-> "message"]
  ELSE [kind |-> "failed", text |-> "unknown error"]

\* one error is raised and classified
ClassifyError(error) ==
  /\ ~failure.done
  /\ failure' = [done |-> TRUE, error |-> error,
                 status |-> toolStatusByError(ErrorKind(error)),
                 message |-> errorMessage(error)]
  /\ UNCHANGED <<hostVars, provVars, schedVars, lastSet, fix, argv, supp, probe, gate, offer, norm, hunk>>

NextFailure == \E error \in RaisedErrors : ClassifyError(error)

SpecFailure == InitAlone /\ [][NextFailure]_vars

\* the text fields of an error value that are strings
TextFields(error) ==
  {f \in {error.stderr, error.stdout, error.shortMessage, error.originalMessage,
          error.message} : f.t = "string"}

\* the error is an Error that tells of a missing executable: by its code or
\* errno, by its numeric exit code, or by a phrase in one of its text fields
NotFoundError(error) ==
  /\ error.kind = "Error"
  /\ \/ error.code = StringOf("ENOENT")
     \/ error.errno = StringOf("ENOENT")
     \/ (IF error.code.t = "number" THEN error.code ELSE error.exitCode)
          \in {NumberOf("127"), NumberOf("9009")}
     \/ \E f \in TextFields(error) : \E i \in 1..Len(f.v) :
          lowerPiece(f.v[i]) \in MissingPhrases

\* C32: a failure is classified as executable-not-found exactly when the raised
\* value is an Error with code or errno ENOENT, numeric exit code 127 or 9009, or
\* one of the phrases, in any case, in one of its text fields; every other
\* failure is classified as execution-failed, and the not-found message is shown
\* exactly for the first kind.
C32_FailureClassification ==
  failure.done =>
    /\ ~failure.status.ok
    /\ failure.status.reason =
         IF NotFoundError(failure.error) THEN "executableNotFound" ELSE "executionFailed"
    /\ failure.message.kind = "notFound" <=> NotFoundError(failure.error)

\* an Error without code or exit code whose message holds a phrase in capitals
C32_Witness ==
  /\ failure.done
  /\ failure.error.kind = "Error"
  /\ failure.error.code = Undefined /\ failure.error.errno = Undefined
  /\ failure.error.exitCode = Undefined
  /\ failure.error.message = StringOf(<<"sh:", "Command Not Found">>)
  /\ failure.error.stderr = Undefined /\ failure.error.stdout = Undefined
  /\ failure.status.reason = "executableNotFound"

-----------------------------------------------------------------------------
(* The eligibility gates of triggerLint on their own: one editor event for a
   document of any language, scheme and path, under any settings *)

DocLanguages == {"shellscript", "dockerfile", "python"}
FilterLanguages == {"dockerfile"}      \* languages a document filter is registered for
Schemes == {"file", "git", "output"}
IgnoreSchemeSets == {{"git", "gitfs", "output"}, {"git"}}
Folders == {<<>>, <<"w">>}             \* <<>>: the document is in no workspace folder
FsPaths == {<<>>, <<"w", "a.sh">>, <<"w", "vendor", "b.sh">>, <<"w", "c.tmp">>}
Patterns == {"vendor/**", "*.tmp"}
PatternSettings == [{} -> BOOLEAN] \cup [Patterns -> BOOLEAN]   \* {} and every valuation
ToolStates == {"absent", "ok", "failed"}

GateDocs == [languageId : DocLanguages, scheme : Schemes, fileName : FsPaths, folder : Folders]

GateSettings ==
  [enabled : BOOLEAN, trigger : {"onType", "onSave"},
   ignoreFileSchemes : IgnoreSchemeSets, ignorePatterns : PatternSettings]

\* minimatch(relativePath, pattern, {dot: true}) for the two patterns
minimatch(relativePath, pattern) ==
  CASE pattern = "vendor/**" -> Len(relativePath) >= 2 /\ relativePath[1] = "vendor"
    [] pattern = "*.tmp" -> Len(relativePath) = 1 /\ relativePath[1] = "c.tmp"
    [] OTHER -> FALSE

\* mutant: the patterns whose value is false are the ones kept
pickFalseKeys(exclude) == {p \in DOMAIN exclude : exclude[p] = FALSE}

pickTrueKeys(exclude) == {p \in DOMAIN exclude : exclude[p] = TRUE}

relativeTo(fsPath, folder) ==
  IF folder /= <<>> /\ Len(fsPath) >= Len(folder) /\ SubSeq(fsPath, 1, Len(folder)) = folder
  THEN SubSeq(fsPath, Len(folder) + 1, Len(fsPath))
  ELSE fsPath

match(excludePatterns, filePath, root) ==
  \E pattern \in excludePatterns : minimatch(relativeTo(filePath, root), pattern)

\* FileMatcher.excludes of a matcher configured with the ignore patterns
excludes(ignorePatterns, fsPath, root) ==
  IF fsPath = <<>> THEN TRUE ELSE match(pickTrueKeys(ignorePatterns), fsPath, root)

\* vscode.languages.match([...LANGUAGES, ...additionalDocumentFilters], textDocument)
languagesMatch(filters, textDocument) == textDocument.languageId \in LANGUAGES \cup filters

GateOutcome(read, cleared, scheduled) ==
  [read |-> read, cleared |-> cleared, scheduled |-> scheduled]

\* triggerLint from its first line to the call of delayer.trigger
triggerLint(filters, textDocument, settings, cond, toolStatus) ==
  IF ~languagesMatch(filters, textDocument) THEN GateOutcome(FALSE, FALSE, FALSE)
  ELSE IF ~extraCondition(cond, settings) THEN GateOutcome(TRUE, FALSE, FALSE)
  ELSE IF toolStatus /= "ok" THEN GateOutcome(TRUE, FALSE, FALSE)  \* absent: TypeError
  ELSE IF textDocument.scheme \in settings.ignoreFileSchemes THEN GateOutcome(TRUE, FALSE, FALSE)
  ELSE IF ~settings.enabled THEN GateOutcome(TRUE, TRUE, FALSE)
  ELSE IF excludes(settings.ignorePatterns, textDocument.fileName, textDocument.folder)
  THEN GateOutcome(TRUE, FALSE, FALSE)
  ELSE GateOutcome(TRUE, FALSE, TRUE)

GateEvent(event, textDocument, settings, toolStatus, outcome) ==
  gate' = [filters |-> gate.filters, done |-> TRUE, event |-> event, doc |-> textDocument,
           settings |-> settings, toolStatus |-> toolStatus, outcome |-> outcome]

\* registerDocumentFilter, and the dispose of the registration
GateRegisterFilter(lang) ==
  /\ ~gate.done
  /\ lang \notin gate.filters
  /\ gate' = [gate EXCEPT !.filters = @ \cup {lang}]
  /\ UNCHANGED <<hostVars, provVars, schedVars, lastSet, fix, argv, supp, probe, failure, offer, norm, hunk>>

GateDisposeFilter(lang) ==
  /\ ~gate.done
  /\ lang \in gate.filters
  /\ gate' = [gate EXCEPT !.filters = @ \ {lang}]
  /\ UNCHANGED <<hostVars, provVars, schedVars, lastSet, fix, argv, supp, probe, failure, offer, norm, hunk>>

\* handleDidOpenTextDocument
GateOpen(textDocument, settings, toolStatus) ==
  /\ ~gate.done
  /\ GateEvent("open", textDocument, settings, toolStatus,
               triggerLint(gate.filters, textDocument, settings, "any", toolStatus))
  /\ UNCHANGED <<hostVars, provVars, schedVars, lastSet, fix, argv, supp, probe, failure, offer, norm, hunk>>

\* handleDidChangeTextDocument
GateChange(textDocument, settings, toolStatus) ==
  /\ ~gate.done
  /\ GateEvent("change", textDocument, settings, toolStatus,
               IF textDocument.scheme = "output" THEN GateOutcome(FALSE, FALSE, FALSE)
               ELSE triggerLint(gate.filters, textDocument, settings, "onType", toolStatus))
  /\ UNCHANGED <<hostVars, provVars, schedVars, lastSet, fix, argv, supp, probe, failure, offer, norm, hunk>>

NextGate ==
  \/ \E lang \in FilterLanguages : GateRegisterFilter(lang)
  \/ \E lang \in FilterLanguages : GateDisposeFilter(lang)
  \/ \E textDocument \in GateDocs, settings \in GateSettings, toolStatus \in ToolStates :
       GateOpen(textDocument, settings, toolStatus)
  \/ \E textDocument \in GateDocs, settings \in GateSettings, toolStatus \in ToolStates :
       GateChange(textDocument, settings, toolStatus)

SpecGate == InitAlone /\ [][NextGate]_vars

\* the path of the document, taken relative to its workspace folder, matches
\* an exclusion pattern whose value is true
MatchesTruePattern(textDocument, settings) ==
  \E p \in DOMAIN settings.ignorePatterns :
    /\ settings.ignorePatterns[p]
    /\ minimatch(relativeTo(textDocument.fileName, textDocument.folder), p)

\* the document fails one of the eligibility gates
Ineligible(filters, textDocument, settings) ==
  \/ textDocument.languageId \notin LANGUAGES \cup filters
  \/ textDocument.scheme \in settings.ignoreFileSchemes
  \/ MatchesTruePattern(textDocument, settings)
  \/ ~settings.enabled

\* C33: no run is scheduled for a document whose language is neither a shell
\* language nor a registered filter, whose scheme is ignored, whose path matches
\* an exclusion pattern set to true, or whose settings disable linting; a change
\* event of a document of the "output" scheme reads no settings
C33_EligibilityGates ==
  gate.done =>
    /\ Ineligible(gate.filters, gate.doc, gate.settings) => ~gate.outcome.scheduled
    /\ gate.event = "change" /\ gate.doc.scheme = "output" => ~gate.outcome.read

\* a change event of an open shell script whose path matches a pattern set to
\* true, every other gate passed, was not scheduled
C33_Witness ==
  /\ gate.done /\ gate.event = "change"
  /\ gate.doc.languageId = "shellscript" /\ gate.doc.scheme = "file"
  /\ gate.settings.enabled /\ gate.settings.trigger = "onType"
  /\ gate.toolStatus = "ok"
  /\ MatchesTruePattern(gate.doc, gate.settings)
  /\ gate.outcome = GateOutcome(TRUE, FALSE, FALSE)

-----------------------------------------------------------------------------
(* The tool status and the start of lint processes *)

\* this step spawns the lint process of the run of the delayer object id
ProcessStarts(id) ==
  /\ heap[id].run.phase = "cwd"
  /\ heap'[id].run.phase = "exec"

\* a lint invocation of the path has raised an error in the current
\* configuration epoch: its catch block waits in the error message
ErrorRaised(path) ==
  \E j \in 1..Len(heap) :
    /\ heap[j].run.phase = "notify"
    /\ heap[j].d.active[1].settings = config
    /\ config.path = path

\* C34: a run starts only while the cached status of its executable path is
\* ready, and once a lint invocation of a path has raised an error no further
\* lint process is started for that path before the status cache is cleared.
C34_NoProcessAfterError ==
  [][\A id \in 1..Len(heap) :
       LET path == heap'[id].d.active[1].settings.path IN
       /\ RunStarts(id) =>
            Has(toolStatusByPath, path) /\ toolStatusByPath[path].ok
       /\ ProcessStarts(id) => ~ErrorRaised(path)
    ]_vars

-----------------------------------------------------------------------------
(* The lookup of the tool status in triggerLint *)

\* C35: whenever a trigger reads the tool status of the executable path of a
\* document, the status cache has an entry for that path: at the end of every
\* suspended triggerLint call that gets as far as the lookup, and for every
\* editor event of a document whose settings are cached.
C35_StatusEntryExists ==
  [][/\ \A c \in BagToSet(calls) :
          (/\ CallFinishes(c)
           /\ Has(settingsByUri', c.doc)
           /\ extraCondition(c.cond, settingsByUri'[c.doc])) =>
            Has(toolStatusByPath', settingsByUri'[c.doc].path)
     /\ \A k \in openDocs, ev \in {"open", "change", "save", "command"} :
          (/\ Has(settingsByUri, k)
           /\ extraCondition(EventCondition(ev), settingsByUri[k])) =>
            Has(toolStatusByPath, settingsByUri[k].path)
    ]_vars

-----------------------------------------------------------------------------
(* The two result stores together *)

\* dispose: both stores end empty; what follows is a provider constructed anew
dispose ==
  /\ lastSet.done
  /\ codeActionCollection' = EmptyMap
  /\ diagnosticCollection' = EmptyMap
  /\ lastSet' = [done |-> FALSE, uri |-> "a", arg |-> NoResults, dc |-> EmptyMap,
                 cac |-> EmptyMap, result |-> NoProcess, shown |-> FALSE]
  /\ UNCHANGED <<hostVars, schedVars, settingsByUri, toolStatusByPath, delayers,
                 heap, calls, initialLint, runSeq, applied, mon, lastChange,
                 notifiedMissingExecutable, notice, fix, argv, supp, probe, failure, gate, offer, norm, hunk>>

NextStores ==
  \/ \E uri \in Docs, arg \in ResultArgs : StoreSet(uri, arg)
  \/ dispose

SpecStores == InitAlone /\ [][NextStores]_vars

\* C36: a key has cached code actions exactly when it has a non-empty list of
\* diagnostics, and that list holds the diagnostics of the cached results, one
\* for one and in the same order.
C36_StoresInStep ==
  \A k \in Docs :
    /\ Has(codeActionCollection, k) <=>
         (Has(diagnosticCollection, k) /\ Len(diagnosticCollection[k]) > 0)
    /\ Has(codeActionCollection, k) =>
         /\ Len(diagnosticCollection[k]) = Len(codeActionCollection[k])
         /\ \A i \in 1..Len(codeActionCollection[k]) :
              diagnosticCollection[k][i] = codeActionCollection[k][i].diagnostic

\* a key holding two different results has just been overwritten by an empty
\* call while the other key keeps a list of two
C36_Witness ==
  /\ lastSet.done /\ lastSet.arg = NoResults
  /\ Has(lastSet.cac, lastSet.uri) /\ Len(lastSet.cac[lastSet.uri]) = 2
  /\ ~Has(codeActionCollection, lastSet.uri)
  /\ \E k \in Docs \ {lastSet.uri} :
       /\ Has(codeActionCollection, k) /\ Len(codeActionCollection[k]) = 2
       /\ codeActionCollection[k][1].diagnostic # codeActionCollection[k][2].diagnostic

-----------------------------------------------------------------------------
(* The debounce delay and the trigger mode *)

\* the delay the trigger mode asks for
DelayOfMode(mode) == IF mode = "onType" THEN 250 ELSE 0

\* C37: the delayer a trigger hands its task to waits 250 ms when the trigger
\* mode of the document is on-type and 0 ms otherwise: for the trigger of every
\* event that passes the mode, and at the end of every suspended triggerLint call
\* that schedules a run.
C37_DelayFollowsMode ==
  [][/\ \A k \in Docs, ev \in {"open", "change", "save", "command"} :
          (Lintable(k) /\ ModeAllows(ev, settingsByUri[k].trigger)) =>
            LET Q == TriggerByEvent(Prov, ev, k, NoSrc) IN
            Q.heap[Q.delayers[k]].d.delay = DelayOfMode(settingsByUri[k].trigger)
     /\ \A c \in BagToSet(calls) :
          (CallFinishes(c) /\ Lintable(c.doc)' /\ Scheduled(Prov, c.doc)') =>
            heap'[delayers'[c.doc]].d.delay = DelayOfMode(settingsByUri'[c.doc].trigger)
    ]_vars

-----------------------------------------------------------------------------
(* provideCodeActions on its own: one request with any context diagnostics,
   any cached results and any range *)

OfferRanges == {r \in Ranges : r.e <= 1}     \* the ranges over the first two positions
ContextRanges == {[s |-> 0, e |-> 0], [s |-> 0, e |-> 1]}

\* Diagnostic.code: string | number | {value: string | number, target} | undefined
DiagnosticCodes ==
  {Undefined, StringOf("SC2086"), NumberOf("2086"),
   [t |-> "object", value |-> StringOf("SC2086")],
   [t |-> "object", value |-> StringOf("SCx")],
   [t |-> "object", value |-> StringOf("2086")],
   [t |-> "object", value |-> NumberOf("2086")]}

ContextDiagnostics ==
  {[source |-> "shellcheck", code |-> c, range |-> r] : c \in DiagnosticCodes, r \in ContextRanges}
    \cup {[source |-> "eslint", code |-> [t |-> "object", value |-> StringOf("SC2086")], range |-> r] :
            r \in ContextRanges}

CachedResults == [diagnostic : [range : OfferRanges], codeAction : {"none", "fix"}]

\* String.startsWith("SC") for the code values above
startsWithSC(v) == v \in {"SC2086", "SCx"}

\* mutant: a code that is a plain string counts as a rule id too
extractRuleIdOfAnyString(diagnostic) ==
  IF diagnostic.code.t = "object" /\ diagnostic.code.value.t = "string"
     /\ startsWithSC(diagnostic.code.value.v)
  THEN diagnostic.code.value.v
  ELSE IF diagnostic.code.t = "string" THEN diagnostic.code.v
  ELSE "undefined"

extractRuleId(diagnostic) ==
  IF diagnostic.code.t = "object" /\ diagnostic.code.value.t = "string"
     /\ startsWithSC(diagnostic.code.value.v)
  THEN diagnostic.code.value.v
  ELSE "undefined"

\* getWikiUrlForRule: /^\s*SC\d+$/ keeps the id, any other id gets one "SC" prefix
getWikiUrlForRule(ruleId) ==
  LET rest == CASE ruleId = "SCx" -> "x" [] ruleId = "SC2086" -> "2086" [] OTHER -> ruleId
      normalized == IF ruleId = "SC2086" THEN ruleId ELSE "SC" \o rest
  IN "https://www.shellcheck.net/wiki/" \o normalized

RECURSIVE flatMapActions(_)
\* the two actions of every shellcheck diagnostic that has a rule id
flatMapActions(diagnostics) ==
  IF diagnostics = <<>> THEN <<>>
  ELSE LET ruleId == extractRuleId(Head(diagnostics)) IN
       (IF ruleId = "undefined" THEN <<>>
        ELSE <<[command |-> "openRuleDoc", arguments |-> <<getWikiUrlForRule(ruleId)>>],
               [command |-> "disableCheckForLine",
                arguments |-> <<ruleId, Head(diagnostics).range>>]>>)
         \o flatMapActions(Tail(diagnostics))

provideCodeActions(results, range, context) ==
  LET shellcheckDiagnostics == SelectSeq(context, LAMBDA d : d.source = "shellcheck")
      actions == flatMapActions(shellcheckDiagnostics)
      matching == SelectSeq(results,
                    LAMBDA r : r.codeAction # "none" /\ contains(r.diagnostic.range, range))
      additionalActions == [i \in 1..Len(matching) |->
                              [command |-> "fix", arguments |-> <<matching[i].diagnostic.range>>]]
  IN actions \o additionalActions

ProvideCodeActions(results, range, context) ==
  /\ ~offer.done
  /\ offer' = [done |-> TRUE, results |-> results, range |-> range, context |-> context,
               actions |-> provideCodeActions(results, range, context)]
  /\ UNCHANGED <<hostVars, provVars, schedVars, lastSet, fix, argv, supp, probe, failure, gate, norm, hunk>>

NextOffer ==
  \E results \in SeqsUpTo(CachedResults, MaxCached), range \in OfferRanges,
     context \in SeqsUpTo(ContextDiagnostics, MaxContext) :
    ProvideCodeActions(results, range, context)

SpecOffer == InitAlone /\ [][NextOffer]_vars

\* the rule id a diagnostic carries: the string value of its code object
RuleIdOf(d) ==
  IF d.code.t = "object" /\ d.code.value.t = "string" THEN d.code.value.v ELSE "undefined"

\* the context diagnostics that come from shellcheck with a rule id "SC..."
RuleDiagnostics(context) ==
  {i \in 1..Len(context) :
     /\ context[i].source = "shellcheck"
     /\ RuleIdOf(context[i]) \in {"SC2086", "SCx"}}

\* the cached quick fixes whose diagnostic range equals or contains the range
MatchingFixes(results, range) ==
  {i \in 1..Len(results) :
     /\ results[i].codeAction = "fix"
     /\ results[i].diagnostic.range.s <= range.s
     /\ range.e <= results[i].diagnostic.range.e}

ActionsOf(actions, command) == {j \in 1..Len(actions) : actions[j].command = command}

\* C38: the answer holds one action for every cached quick fix whose diagnostic
\* range equals or contains the requested range and for no other; every context
\* diagnostic of shellcheck with a rule id "SC..." contributes one action that
\* opens the wiki page of the rule and one that disables the rule for the line
\* of the diagnostic, and no other diagnostic contributes anything.
C38_QuickFixMatching ==
  offer.done =>
    LET rules == RuleDiagnostics(offer.context)
        fixes == MatchingFixes(offer.results, offer.range)
    IN /\ Cardinality(ActionsOf(offer.actions, "fix")) = Cardinality(fixes)
       /\ \A i \in fixes : \E j \in ActionsOf(offer.actions, "fix") :
            offer.actions[j].arguments = <<offer.results[i].diagnostic.range>>
       /\ Cardinality(ActionsOf(offer.actions, "openRuleDoc")) = Cardinality(rules)
       /\ Cardinality(ActionsOf(offer.actions, "disableCheckForLine")) = Cardinality(rules)
       /\ Len(offer.actions) = 2 * Cardinality(rules) + Cardinality(fixes)
       /\ \A i \in rules :
            /\ \E j \in ActionsOf(offer.actions, "openRuleDoc") :
                 offer.actions[j].arguments =
                   <<"https://www.shellcheck.net/wiki/" \o RuleIdOf(offer.context[i])>>
            /\ \E j \in ActionsOf(offer.actions, "disableCheckForLine") :
                 offer.actions[j].arguments =
                   <<RuleIdOf(offer.context[i]), offer.context[i].range>>

\* a request inside the range of the cached quick fix, with a shellcheck
\* diagnostic of rule SC2086 in its context: three actions
C38_Witness ==
  /\ offer.done
  /\ Len(offer.results) = 1 /\ offer.results[1].codeAction = "fix"
  /\ offer.results[1].diagnostic.range = [s |-> 0, e |-> 1]
  /\ offer.range = [s |-> 1, e |-> 1]
  /\ Len(offer.context) = 1 /\ offer.context[1].source = "shellcheck"
  /\ offer.context[1].code = [t |-> "object", value |-> StringOf("SC2086")]
  /\ Len(offer.actions) = 3

-----------------------------------------------------------------------------
(* The line endings of the text fed to the tool *)

TextChars == {"\r", "\n", "x"}
DocumentTexts == SeqsUpTo(TextChars, MaxText)

RECURSIVE replaceAllCRLF(_)
\* String.replaceAll("\r\n", "\n"): the occurrences from left to right
replaceAllCRLF(s) ==
  IF s = <<>> THEN <<>>
  ELSE IF Len(s) >= 2 /\ s[1] = "\r" /\ s[2] = "\n"
  THEN <<"\n">> \o replaceAllCRLF(SubSeq(s, 3, Len(s)))
  ELSE <<s[1]>> \o replaceAllCRLF(Tail(s))

\* String.replaceAll("\r", "\n")
replaceAllCR(s) == [i \in 1..Len(s) |-> IF s[i] = "\r" THEN "\n" ELSE s[i]]

\* mutant: the lone carriage returns are replaced first
normalizeCRFirst(s) == replaceAllCRLF(replaceAllCR(s))

\* runLint: getText().replaceAll("\r\n", "\n").replaceAll("\r", "\n")
normalizeLineEndings(s) == replaceAllCR(replaceAllCRLF(s))

\* runLint prepares the text of the document; `again`: the result prepared once more
PrepareScript(s) ==
  /\ ~norm.done
  /\ norm' = [done |-> TRUE, text |-> s, script |-> normalizeLineEndings(s),
              again |-> normalizeLineEndings(normalizeLineEndings(s))]
  /\ UNCHANGED <<hostVars, provVars, schedVars, lastSet, fix, argv, supp, probe, failure,
                 gate, offer, hunk>>

NextNorm == \E s \in DocumentTexts : PrepareScript(s)

SpecNorm == InitAlone /\ [][NextNorm]_vars

\* the characters of s that survive: all but the LF of a CRLF pair
KeptChars(s) == {i \in 1..Len(s) : ~(s[i] = "\n" /\ i > 1 /\ s[i - 1] = "\r")}

\* C39: the text fed to the tool has no carriage return; it has one character
\* for every character of the document text except the LF of a CRLF pair, in
\* the same order, a LF where the document has a CR and the same character
\* elsewhere; normalising it again changes nothing.
C39_LineEndings ==
  norm.done =>
    LET kept == KeptChars(norm.text) IN
    /\ \A j \in 1..Len(norm.script) : norm.script[j] # "\r"
    /\ Len(norm.script) = Cardinality(kept)
    /\ \A i \in kept :
         norm.script[Cardinality({k \in kept : k <= i})] =
           IF norm.text[i] = "\r" THEN "\n" ELSE norm.text[i]
    /\ norm.again = norm.script

\* a text with a CRLF pair followed by a lone CR and an ordinary character
C39_Witness ==
  /\ norm.done
  /\ norm.text = <<"\r", "\n", "\r", "x">>
  /\ norm.script = <<"\n", "\n", "x">>

-----------------------------------------------------------------------------
(* format/diff-utils: the translation of one diff hunk into edits *)

LineBodies == {"p", "q"}
\* the lines of a hunk: removed, added, context, and "\ No newline at end of file"
HunkLines ==
  [kind : {"-", "+", " "}, body : LineBodies] \cup {[kind |-> "\\", body |-> "p"]}
Hunks == SeqsUpTo(HunkLines, MaxHunk)
OldStart == 1      \* hunk.oldStart: the hunk starts at the first line of the file

\* new Edit(action, new Position(line, 0)); positions are line numbers, column 0
NewEdit(action, line) == [action |-> action, start |-> line, end |-> line, text |-> <<>>]

\* current: <<>> for null, <<edit>> for an edit being built
buildDeletionEdit(current, startLine) ==
  IF current # <<>> THEN current[1] ELSE NewEdit("Delete", startLine - 1)

buildInsertionEdit(current, startLine) ==
  IF current = <<>> THEN NewEdit("Insert", startLine - 1)
  ELSE IF current[1].action = "Delete" THEN [current[1] EXCEPT !.action = "Replace"]
  ELSE current[1]

flushPendingEdit(current, edits) == edits \o current

RECURSIVE hunkLoop(_, _, _, _)
\* the loop of applyHunkLines over the lines not yet read, and the final flush
hunkLoop(lines, edit, startLine, edits) ==
  IF lines = <<>> THEN flushPendingEdit(edit, edits)
  ELSE LET rawLine == Head(lines) IN
       CASE rawLine.kind = "-" ->
              hunkLoop(Tail(lines),
                       <<[buildDeletionEdit(edit, startLine) EXCEPT !.end = startLine]>>,
                       startLine + 1, edits)
         [] rawLine.kind = "+" ->
              hunkLoop(Tail(lines),
                       <<[buildInsertionEdit(edit, startLine) EXCEPT
                            !.text = @ \o <<rawLine.body>>]>>,
                       startLine, edits)
         [] rawLine.kind = " " ->
              hunkLoop(Tail(lines), <<>>, startLine + 1, flushPendingEdit(edit, edits))
         [] OTHER -> hunkLoop(Tail(lines), edit, startLine, edits)

applyHunkLines(lines) == hunkLoop(lines, <<>>, OldStart, <<>>)

RECURSIVE editedFrom(_, _, _)
\* Edit.apply for every edit, the text edits applied to the old lines: the
\* lines from position line (0-based) on
editedFrom(old, edits, line) ==
  LET here == SelectSeq(edits, LAMBDA e : e.start = line)
      added == IF here = <<>> THEN <<>> ELSE here[1].text
      removed == \E i \in 1..Len(edits) :
                   /\ edits[i].action \in {"Delete", "Replace"}
                   /\ edits[i].start <= line /\ line < edits[i].end
  IN IF line >= Len(old) THEN added
     ELSE added \o (IF removed THEN <<>> ELSE <<old[line + 1]>>)
            \o editedFrom(old, edits, line + 1)

\* the lines of the file before and after the change the hunk describes
OldLines(lines) ==
  LET kept == SelectSeq(lines, LAMBDA l : l.kind \in {"-", " "})
  IN [i \in 1..Len(kept) |-> kept[i].body]

NewLines(lines) ==
  LET kept == SelectSeq(lines, LAMBDA l : l.kind \in {"+", " "})
  IN [i \in 1..Len(kept) |-> kept[i].body]

TranslateHunk(lines) ==
  /\ ~hunk.done
  /\ LET edits == applyHunkLines(lines) IN
     hunk' = [done |-> TRUE, lines |-> lines, edits |-> edits,
              result |-> editedFrom(OldLines(lines), edits, 0)]
  /\ UNCHANGED <<hostVars, provVars, schedVars, lastSet, fix, argv, supp, probe, failure,
                 gate, offer, norm>>

NextHunk == \E lines \in Hunks : TranslateHunk(lines)

SpecHunk == InitAlone /\ [][NextHunk]_vars

\* C40: every emitted edit that covers a removed line is a Delete when it adds
\* no line and a Replace when it adds lines, never an Insert; the edits applied
\* to the old lines give the new lines.
C40_HunkEdits ==
  hunk.done =>
    /\ \A i \in 1..Len(hunk.edits) :
         LET e == hunk.edits[i] IN
         e.end > e.start =>
           e.action = IF e.text = <<>> THEN "Delete" ELSE "Replace"
    /\ hunk.result = NewLines(hunk.lines)

=============================================================================
